---- MODULE Spec2Model ----
(***************************************************************************)
(* Reliability middleware of opta (src/opta/middleware.py): the circuit    *)
(* breaker and the sliding-window rate limiter, called by several threads. *)
(*                                                                         *)
(* Time is counted in tenths of a second (time.time() is a float; 0.1 s is *)
(* the smallest constant of the code).  The clock advances in steps of     *)
(* Step, a divisor of the 60 s window, so that "exactly one window ago"    *)
(* is a time the model reaches.  A step of the model is one lock region of *)
(* the code, or the code a thread runs between two lock regions.           *)
(***************************************************************************)
EXTENDS Integers, Sequences, FiniteSets, TLC

\* ------------------------------------------------------------------ bounds
Threads == {"t1", "t2"}
TicksPerWindow == 2
MaxTicks == 3
MaxFailureCount == 4
MaxLog == 2
MaxAttempt == 3
MaxCalls == 1
MaxDirect == 1
MaxInstances == 2
MaxSent == 1
MaxStarted == 2
MaxSeqCalls == 3
MaxSamples == 2

\* Retries of one execute call in the lock model.
MaxLockRetries == 1

\* -------------------------------------------------------- program constants
Window == 600          \* 60.0 s
MinWait == 1           \* 0.1 s
MinDelay == 1          \* 0.1 s
LatencyCapacity == 100 \* deque(maxlen=100)

Step == Window \div TicksPerWindow
MaxTime == Step * (MaxTicks + 1)

CLOSED == "closed"
OPEN == "open"
HALF_OPEN == "half_open"
CircuitState == {CLOSED, OPEN, HALF_OPEN}

\* Optional[float]: None is the empty tuple, a value t is <<t>>.
None == <<>>
Some(x) == <<x>>
\* Python truthiness of an Optional[float]: None and 0.0 are falsy.
Truthy(o) == o # None /\ o[1] # 0

\* CircuitBreakerConfig values the breaker is constructed with.
CircuitBreakerConfig ==
    [failure_threshold : 1..3,
     recovery_timeout : {Step, 2 * Step},
     half_open_max_calls : 1..2,
     success_threshold : 1..2]

VARIABLES
    now,        \* time.time()
    cb_config,  \* CircuitBreaker.config
    cb,         \* CircuitBreaker fields: _state, _failure_count, _success_count,
                \* _last_failure_time, _half_open_calls
    cb_pc,      \* per thread: where it is inside can_execute
    cb_obs,     \* observer: the last completed call and its return value, and
                \* counts of calls since the events the contracts speak of
    rl_config,  \* RateLimiter.config
    rl,         \* RateLimiter fields: _request_timestamps, _token_usage
    rl_pc,      \* per thread: the call it is in, with the call's locals
    rl_obs,     \* observer: the last can_proceed() return
    rh_config,  \* RetryHandler.config
    rh_obs,     \* observer: the last RetryHandler call, its arguments and return
    mw_config,  \* ProductionMiddleware.config: enabled
    metrics,    \* ProductionMiddleware.metrics: the counters
    mw_pc,      \* per thread: where it is inside execute, with the call's locals
    mw_obs,     \* observer, per thread: what its current or last execute did
    _middleware,      \* the module global: None or the default instance
    _middleware_lock, \* the threads inside a `with _middleware_lock` block
    instances,  \* every ProductionMiddleware constructed so far, by identity
    g_pc,       \* per thread: where it is in get/configure/reset_middleware, and
                \* the instance get_middleware last returned to it
    g_obs,      \* observer: instances returned and constructed by get_middleware
    lock_holder, \* per threading.Lock: None or the thread that holds it
    lk_pc       \* per thread: the acquisitions and releases its call has yet to make

cbvars == <<cb_config, cb, cb_pc, cb_obs>>
rlvars == <<rl_config, rl, rl_pc, rl_obs>>
rhvars == <<rh_config, rh_obs>>
mwvars == <<mw_config, metrics, mw_pc, mw_obs>>
gvars == <<_middleware, _middleware_lock, instances, g_pc, g_obs>>
lkvars == <<lock_holder, lk_pc>>
vars == <<now, cbvars, rlvars, rhvars, mwvars, gvars, lkvars>>

\* What no CircuitBreaker method writes, what no RateLimiter method writes, and
\* what no RetryHandler method writes.
CBFrame == <<now, cb_config, rlvars, rhvars, mwvars, gvars, lkvars>>
RLFrame == <<now, rl_config, cbvars, rhvars, mwvars, gvars, lkvars>>
RHFrame == <<now, rh_config, cbvars, rlvars, mwvars, gvars, lkvars>>
\* What no step of ProductionMiddleware.execute writes.
MWFrame ==
    <<mw_config, cb_config, cb_pc, cb_obs, rl_config, rl_pc, rl_obs, rhvars, gvars, lkvars>>
\* What no step of get_middleware, configure_middleware or reset_middleware writes.
GFrame == <<now, cbvars, rlvars, rhvars, mwvars, lkvars>>

\* ---------------------------------------------------------- CircuitBreaker
CircuitBreaker__init__ ==
    [state |-> CLOSED,
     failure_count |-> 0,
     success_count |-> 0,
     last_failure_time |-> None,
     half_open_calls |-> 0]

\* Mutant: the transition does not wait for the recovery timeout.
RecoveryDue_ignores_timeout(b) ==
    /\ b.state = OPEN
    /\ Truthy(b.last_failure_time)

\* The condition of the state property's transition OPEN -> HALF_OPEN.
RecoveryDue(b) ==
    /\ b.state = OPEN
    /\ Truthy(b.last_failure_time)
    /\ now - b.last_failure_time[1] >= cb_config.recovery_timeout

\* Mutant: the transition forgets to zero the half-open counters.
StateProperty_keeps_counts(b) ==
    IF RecoveryDue(b) THEN [b EXCEPT !.state = HALF_OPEN] ELSE b

\* The breaker after one evaluation of the state property.
StateProperty(b) ==
    IF RecoveryDue(b)
    THEN [b EXCEPT !.state = HALF_OPEN, !.half_open_calls = 0, !.success_count = 0]
    ELSE b

\* Mutant: the cap is compared with <=.
HalfOpenSlotFree_off_by_one(b) == b.half_open_calls <= cb_config.half_open_max_calls

HalfOpenSlotFree(b) == b.half_open_calls < cb_config.half_open_max_calls

\* Mutant: the success threshold is compared with >.
SuccessCloses_strict(n) == n > cb_config.success_threshold

SuccessCloses(n) == n >= cb_config.success_threshold

\* Mutant: the decrement while CLOSED is not clamped at zero.
RecordSuccessEffect_unclamped(b) ==
    IF b.state = HALF_OPEN
    THEN IF SuccessCloses(b.success_count + 1)
         THEN [b EXCEPT !.success_count = b.success_count + 1,
                        !.state = CLOSED, !.failure_count = 0]
         ELSE [b EXCEPT !.success_count = b.success_count + 1]
    ELSE IF b.state = CLOSED
         THEN [b EXCEPT !.failure_count = b.failure_count - 1]
         ELSE b

\* The breaker after record_success.
RecordSuccessEffect(b) ==
    IF b.state = HALF_OPEN
    THEN IF SuccessCloses(b.success_count + 1)
         THEN [b EXCEPT !.success_count = b.success_count + 1,
                        !.state = CLOSED, !.failure_count = 0]
         ELSE [b EXCEPT !.success_count = b.success_count + 1]
    ELSE IF b.state = CLOSED
         THEN [b EXCEPT !.failure_count =
                          IF b.failure_count - 1 > 0 THEN b.failure_count - 1 ELSE 0]
         ELSE b

\* Mutant: the failure threshold is compared with >.
FailureOpens_strict(n) == n > cb_config.failure_threshold

FailureOpens(n) == n >= cb_config.failure_threshold

\* Mutant: a failure while HALF_OPEN is handled like one while CLOSED is not:
\* the HALF_OPEN branch is missing.
RecordFailureEffect_half_open_stays(b) ==
    LET c == [b EXCEPT !.failure_count = b.failure_count + 1,
                       !.last_failure_time = Some(now)]
    IN  IF c.state = CLOSED /\ FailureOpens(c.failure_count)
        THEN [c EXCEPT !.state = OPEN]
        ELSE c

\* The breaker after record_failure.
RecordFailureEffect(b) ==
    LET c == [b EXCEPT !.failure_count = b.failure_count + 1,
                       !.last_failure_time = Some(now)]
    IN  IF c.state = HALF_OPEN
        THEN [c EXCEPT !.state = OPEN]
        ELSE IF c.state = CLOSED /\ FailureOpens(c.failure_count)
             THEN [c EXCEPT !.state = OPEN]
             ELSE c

\* Mutant: reset forgets half_open_calls.
ResetEffect_keeps_calls(b) ==
    [b EXCEPT !.state = CLOSED, !.failure_count = 0, !.success_count = 0,
              !.last_failure_time = None]

\* The breaker after reset.
ResetEffect(b) ==
    [b EXCEPT !.state = CLOSED, !.failure_count = 0, !.success_count = 0,
              !.last_failure_time = None, !.half_open_calls = 0]

\* ---- observer bookkeeping (not program state)
\* A half-open cycle starts at a transition OPEN -> HALF_OPEN; admits and
\* successes count the can_execute() = True returns and the record_success()
\* calls made while HALF_OPEN in the current cycle.
ObsInit ==
    [op |-> "none", ret |-> "none", pre |-> CLOSED,
     streak |-> 0, from_closed |-> FALSE, admits |-> 0, successes |-> 0]

ObsCycle(o, b, b2) ==
    IF b2.state # HALF_OPEN THEN [o EXCEPT !.admits = 0, !.successes = 0]
    ELSE IF b.state = OPEN THEN [o EXCEPT !.admits = 0, !.successes = 0]
    ELSE o

ObsCall(o, b, b2, op, ret) ==
    [ObsCycle(o, b, b2) EXCEPT !.op = op, !.ret = ret, !.pre = b.state]

Bool(x) == IF x THEN "True" ELSE "False"

\* ---- actions
\* cb.state read by a caller (currentState()).
State(t) ==
    /\ cb_pc[t] = "idle"
    /\ cb' = StateProperty(cb)
    /\ cb_obs' = ObsCall(cb_obs, cb, cb', "state", cb'.state)
    /\ UNCHANGED <<CBFrame, cb_pc>>

\* can_execute up to its return for CLOSED and OPEN; for HALF_OPEN the thread
\* has left the lock of the state property and has yet to take it again.
CanExecute(t) ==
    /\ cb_pc[t] = "idle"
    /\ cb' = StateProperty(cb)
    /\ IF cb'.state = HALF_OPEN
       THEN /\ cb_pc' = [cb_pc EXCEPT ![t] = "half_open"]
            /\ cb_obs' = ObsCall(cb_obs, cb, cb', "can_execute.state", cb'.state)
       ELSE /\ cb_pc' = cb_pc
            /\ cb_obs' = ObsCall(cb_obs, cb, cb', "can_execute", Bool(cb'.state = CLOSED))
    /\ UNCHANGED CBFrame

\* can_execute, the HALF_OPEN branch: the second lock region.
CanExecuteHalfOpen(t) ==
    /\ cb_pc[t] = "half_open"
    /\ cb_pc' = [cb_pc EXCEPT ![t] = "idle"]
    /\ IF HalfOpenSlotFree(cb)
       THEN /\ cb' = [cb EXCEPT !.half_open_calls = cb.half_open_calls + 1]
            /\ cb_obs' = [ObsCall(cb_obs, cb, cb', "can_execute", "True")
                            EXCEPT !.admits = IF cb.state = HALF_OPEN
                                              THEN cb_obs.admits + 1 ELSE 0]
       ELSE /\ cb' = cb
            /\ cb_obs' = ObsCall(cb_obs, cb, cb', "can_execute", "False")
    /\ UNCHANGED CBFrame

RecordSuccess(t) ==
    /\ cb_pc[t] = "idle"
    /\ cb' = RecordSuccessEffect(cb)
    /\ cb_obs' = [ObsCall([cb_obs EXCEPT !.successes =
                                IF cb.state = HALF_OPEN THEN cb_obs.successes + 1 ELSE 0],
                          cb, cb', "record_success", "None")
                    EXCEPT !.streak = 0, !.from_closed = FALSE]
    /\ UNCHANGED <<CBFrame, cb_pc>>

RecordFailure(t) ==
    /\ cb_pc[t] = "idle"
    /\ cb.failure_count < MaxFailureCount
    /\ cb' = RecordFailureEffect(cb)
    /\ cb_obs' = [ObsCall(cb_obs, cb, cb', "record_failure", "None")
                    EXCEPT !.streak = cb_obs.streak + 1,
                           !.from_closed = IF cb_obs.streak = 0
                                           THEN cb.state = CLOSED
                                           ELSE cb_obs.from_closed]
    /\ UNCHANGED <<CBFrame, cb_pc>>

Reset(t) ==
    /\ cb_pc[t] = "idle"
    /\ cb' = ResetEffect(cb)
    /\ cb_obs' = [ObsCall(cb_obs, cb, cb', "reset", "None")
                    EXCEPT !.streak = 0, !.from_closed = FALSE]
    /\ UNCHANGED <<CBFrame, cb_pc>>

\* The clock advances (time.time() is read as non-decreasing).
Tick ==
    /\ now + Step <= MaxTime
    /\ now' = now + Step
    /\ UNCHANGED <<cbvars, rlvars, rhvars, mwvars, gvars, lkvars>>

\* ------------------------------------------------------------- RateLimiter
\* burst_allowance is a float; it is kept as numerator and denominator, and
\* int(x * burst_allowance) is the floor of the product.
RateLimiterConfig ==
    [requests_per_minute : 1..2,
     tokens_per_minute : {2},
     burst_allowance : {<<1, 1>>, <<3, 2>>}]

TokensUsedArgs == {0, 2}
EstimatedTokensArgs == {0, 3}

RateLimiter__init__ == [request_timestamps |-> <<>>, token_usage |-> <<>>]

Burst(x, c) == (x * c.burst_allowance[1]) \div c.burst_allowance[2]
MaxRequestsOf(c) == Burst(c.requests_per_minute, c)
MaxTokensOf(c) == Burst(c.tokens_per_minute, c)

Max(a, b) == IF a >= b THEN a ELSE b

\* Mutant: an entry exactly one window old is pruned too.
Expired_inclusive(ts, window_start) == ts <= window_start

\* An entry is pruned when it is older than the window.
Expired(ts, window_start) == ts < window_start

\* while self._request_timestamps and self._request_timestamps[0] < window_start: popleft()
RECURSIVE PruneRequests(_, _)
PruneRequests(q, window_start) ==
    IF q # <<>> /\ Expired(q[1], window_start)
    THEN PruneRequests(Tail(q), window_start)
    ELSE q

\* while self._token_usage and self._token_usage[0][0] < window_start: popleft()
RECURSIVE PruneTokens(_, _)
PruneTokens(q, window_start) ==
    IF q # <<>> /\ Expired(q[1][1], window_start)
    THEN PruneTokens(Tail(q), window_start)
    ELSE q

\* sum(t[1] for t in self._token_usage)
RECURSIVE SumTokens(_)
SumTokens(q) == IF q = <<>> THEN 0 ELSE q[1][2] + SumTokens(Tail(q))

RequestLimitReached(q, c) == Len(q) >= MaxRequestsOf(c)

TokenLimitExceeded(total_tokens, estimated_tokens, c) ==
    total_tokens + estimated_tokens > MaxTokensOf(c)

\* The lock region of can_proceed, for the call's own reading n of the clock:
\* the pruned logs and the returned pair (ok, wait).
CanProceedLockRegion(r, c, n, estimated_tokens) ==
    LET window_start == n - Window
        reqs == PruneRequests(r.request_timestamps, window_start)
        toks == PruneTokens(r.token_usage, window_start)
        pruned == [request_timestamps |-> reqs, token_usage |-> toks]
    IN  IF RequestLimitReached(reqs, c)
        THEN [rl |-> pruned, ok |-> FALSE,
              wait |-> Some(Max(MinWait, reqs[1] - window_start))]
        ELSE IF TokenLimitExceeded(SumTokens(toks), estimated_tokens, c) /\ toks # <<>>
             THEN [rl |-> pruned, ok |-> FALSE,
                   wait |-> Some(Max(MinWait, toks[1][1] - window_start))]
             ELSE [rl |-> pruned, ok |-> TRUE, wait |-> None]

\* Mutant: a token entry is logged even for a zero count.
RecordRequestLockRegion_always_tokens(r, n, tokens_used) ==
    [request_timestamps |-> Append(r.request_timestamps, n),
     token_usage |-> Append(r.token_usage, <<n, tokens_used>>)]

\* The lock region of record_request, for the call's own reading n of the clock.
RecordRequestLockRegion(r, n, tokens_used) ==
    [request_timestamps |-> Append(r.request_timestamps, n),
     token_usage |-> IF tokens_used > 0
                     THEN Append(r.token_usage, <<n, tokens_used>>)
                     ELSE r.token_usage]

Idle == [at |-> "idle"]
\* Observer: the last can_proceed() return, how many request entries that call
\* pruned, and whether a can_proceed() has denied since the last record_request().
RLObsInit == [op |-> "none", ok |-> FALSE, wait |-> None, pruned |-> 0, denied |-> FALSE]

\* can_proceed before the lock: now = time.time(); window_start = now - 60.0
CanProceed(t, estimated_tokens) ==
    /\ rl_pc[t] = Idle
    /\ rl_pc' = [rl_pc EXCEPT ![t] = [at |-> "can_proceed", now |-> now,
                                      estimated_tokens |-> estimated_tokens]]
    /\ UNCHANGED <<RLFrame, rl, rl_obs>>

\* can_proceed inside the lock, to its return.
CanProceedLocked(t) ==
    /\ rl_pc[t].at = "can_proceed"
    /\ LET res == CanProceedLockRegion(rl, rl_config, rl_pc[t].now,
                                       rl_pc[t].estimated_tokens)
       IN  /\ rl' = res.rl
           /\ rl_obs' = [op |-> "can_proceed", ok |-> res.ok, wait |-> res.wait,
                         pruned |-> Len(rl.request_timestamps)
                                      - Len(res.rl.request_timestamps),
                         denied |-> rl_obs.denied \/ ~res.ok]
    /\ rl_pc' = [rl_pc EXCEPT ![t] = Idle]
    /\ UNCHANGED RLFrame

PendingRecords == Cardinality({t \in Threads : rl_pc[t].at = "record_request"})

\* record_request before the lock: now = time.time()
RecordRequest(t, tokens_used) ==
    /\ rl_pc[t] = Idle
    /\ Len(rl.request_timestamps) + PendingRecords < MaxLog
    /\ rl_pc' = [rl_pc EXCEPT ![t] = [at |-> "record_request", now |-> now,
                                      tokens_used |-> tokens_used]]
    /\ UNCHANGED <<RLFrame, rl, rl_obs>>

\* record_request inside the lock.
RecordRequestLocked(t) ==
    /\ rl_pc[t].at = "record_request"
    /\ rl' = RecordRequestLockRegion(rl, rl_pc[t].now, rl_pc[t].tokens_used)
    /\ rl_obs' = [rl_obs EXCEPT !.denied = FALSE]
    /\ rl_pc' = [rl_pc EXCEPT ![t] = Idle]
    /\ UNCHANGED RLFrame

\* ------------------------------------------------------------ RetryHandler
\* Delays are in tenths of a second.  jitter is a float; it is kept as
\* numerator and denominator.  The values are such that delay * jitter is a
\* whole number of tenths, so the arithmetic below is exact.
RetryConfig ==
    [max_retries : -1..2,
     base_delay : {0, 10, 100},
     max_delay : {0, 50, 600},
     exponential_base : 1..2,
     jitter : {<<0, 1>>, <<1, 10>>}]

\* The errors an operation raises, by what the classifier says of them.
Retryable == {"retryable_1", "retryable_2"}
Errors == Retryable \cup {"non_retryable", "unclassified"}

\* LiteLLMExceptions().get_ex_info(exception): the verdict is True, False or None.
get_ex_info(exception) ==
    [retry |-> CASE exception \in Retryable -> Some(TRUE)
                 [] exception = "non_retryable" -> Some(FALSE)
                 [] OTHER -> None]

\* random.uniform(-jitter_range, jitter_range): the draw is one of the two ends
\* of the range or its middle.
JitterDraws == {-1, 0, 1}

Min(a, b) == IF a <= b THEN a ELSE b

RECURSIVE Pow(_, _)
Pow(b, n) == IF n = 0 THEN 1 ELSE b * Pow(b, n - 1)

\* Mutant: the delay is not clamped at max_delay.
calculate_delay_unclamped(c, attempt, draw) ==
    LET delay == c.base_delay * Pow(c.exponential_base, attempt)
        jitter_range == (delay * c.jitter[1]) \div c.jitter[2]
    IN  Max(MinDelay, delay + draw * jitter_range)

calculate_delay(c, attempt, draw) ==
    LET delay == Min(c.base_delay * Pow(c.exponential_base, attempt), c.max_delay)
        jitter_range == (delay * c.jitter[1]) \div c.jitter[2]
    IN  Max(MinDelay, delay + draw * jitter_range)

\* Mutant: one attempt too many is allowed.
should_retry_off_by_one(c, attempt, exception) ==
    IF attempt > c.max_retries
    THEN FALSE
    ELSE LET ex_info == get_ex_info(exception)
         IN  IF ex_info.retry # None THEN ex_info.retry[1] ELSE FALSE

should_retry(c, attempt, exception) ==
    IF attempt >= c.max_retries
    THEN FALSE
    ELSE LET ex_info == get_ex_info(exception)
         IN  IF ex_info.retry # None THEN ex_info.retry[1] ELSE FALSE

RHObsInit ==
    [op |-> "none", attempt |-> 0, exception |-> "none", draw |-> 0,
     retry |-> FALSE, delay |-> 0]

\* A caller evaluates should_retry(attempt, exception).
ShouldRetryCall(attempt, exception) ==
    /\ rh_obs' = [RHObsInit EXCEPT !.op = "should_retry", !.attempt = attempt,
                                   !.exception = exception,
                                   !.retry = should_retry(rh_config, attempt, exception)]
    /\ UNCHANGED RHFrame

\* A caller evaluates calculate_delay(attempt).
CalculateDelayCall(attempt, draw) ==
    /\ rh_obs' = [RHObsInit EXCEPT !.op = "calculate_delay", !.attempt = attempt,
                                   !.draw = draw,
                                   !.delay = calculate_delay(rh_config, attempt, draw)]
    /\ UNCHANGED RHFrame

\* ----------------------------------------------------- ProductionMiddleware
\* MiddlewareConfig: the enabled switch.  The component configurations are
\* cb_config, rl_config and rh_config.
MiddlewareConfig == [enabled : BOOLEAN]

\* MiddlewareMetrics(): the counters and the latency samples.  total_cost and
\* last_request_time are left out; average_latency_ms is a function of the
\* samples.  A latency is kept in the unit of the clock.
MiddlewareMetrics__init__ ==
    [total_requests |-> 0, successful_requests |-> 0, failed_requests |-> 0,
     retried_requests |-> 0, circuit_breaker_rejections |-> 0,
     rate_limit_rejections |-> 0, total_tokens_received |-> 0, total_tokens_sent |-> 0,
     latencies |-> <<>>, average_latency_ms |-> <<0, 1>>]

RECURSIVE SumSeq(_)
SumSeq(q) == IF q = <<>> THEN 0 ELSE q[1] + SumSeq(Tail(q))

\* Mutant: the deque has no maxlen.
record_latency_unbounded(m, latency) ==
    LET samples == Append(m.latencies, latency)
    IN  [m EXCEPT !.latencies = samples,
                  !.average_latency_ms = <<SumSeq(samples), Len(samples)>>]

\* record_latency: deque(maxlen=100).append drops the oldest sample when full;
\* average_latency_ms = sum / len is a float, kept as numerator and denominator.
record_latency(m, latency) ==
    LET samples == IF Len(m.latencies) >= LatencyCapacity
                   THEN Append(Tail(m.latencies), latency)
                   ELSE Append(m.latencies, latency)
    IN  [m EXCEPT !.latencies = samples,
                  !.average_latency_ms = <<SumSeq(samples), Len(samples)>>]

\* What the wrapped operation returns: an object without usage, or one whose
\* usage.total_tokens is a positive count.
Results == {[usage |-> None]} \cup {[usage |-> Some(k)] : k \in TokensUsedArgs \ {0}}

_extract_tokens(result) == IF result.usage # None THEN result.usage[1] ELSE 0

\* Mutant: the enabled switch is ignored.
Disabled_never(c) == FALSE

Disabled(c) == ~c.enabled

CountRequest(m) == [m EXCEPT !.total_requests = @ + 1]

\* Mutant: a circuit rejection is also counted as a failed request.
CountCircuitRejection_as_failure(m) ==
    [m EXCEPT !.circuit_breaker_rejections = @ + 1, !.failed_requests = @ + 1]

CountCircuitRejection(m) == [m EXCEPT !.circuit_breaker_rejections = @ + 1]

\* Mutant: a rate limit rejection is counted as a circuit rejection.
CountRateLimitRejection_as_circuit(m) ==
    [m EXCEPT !.circuit_breaker_rejections = @ + 1]

CountRateLimitRejection(m) == [m EXCEPT !.rate_limit_rejections = @ + 1]

\* Mutant: a success is not counted.
CountSuccess_dropped(m) == m

CountSuccess(m) == [m EXCEPT !.successful_requests = @ + 1]

\* Mutant: a terminal failure is also counted as a retry.
CountFailure_and_retry(m) ==
    [m EXCEPT !.failed_requests = @ + 1, !.retried_requests = @ + 1]

CountFailure(m) == [m EXCEPT !.failed_requests = @ + 1]

\* Mutant: retries are not counted.
CountRetry_dropped(m) == m

CountRetry(m) == [m EXCEPT !.retried_requests = @ + 1]

CountTokens(m, tokens_used) == [m EXCEPT !.total_tokens_received = @ + tokens_used]

\* range(max_retries + 1) still has an element for this attempt.
InRange(c, attempt) == attempt < c.max_retries + 1

\* The locals of one execute call.
MWIdle ==
    [at |-> "idle", estimated_tokens |-> 0, attempt |-> 0, n |-> 0, wait |-> None,
     result |-> None, last_exception |-> None, delay |-> 0, latency |-> 0]

NoOutcome == [kind |-> "none", exc |-> "", result |-> None, wait |-> None]
Returned(result) == [kind |-> "return", exc |-> "", result |-> Some(result), wait |-> None]
Raised(exc, wait) == [kind |-> "raise", exc |-> exc, result |-> None, wait |-> wait]

\* What the observer keeps of one call: the state the call started in, what the
\* operation did at each invocation, the sleeps, what reached the breaker and
\* the limiter, and how the call ended.
MWObsStart ==
    [start |-> [metrics |-> metrics, cb |-> cb, rl |-> rl],
     enabled |-> mw_config.enabled,
     invocations |-> 0, op_raised |-> <<>>, op_returned |-> None,
     sleeps |-> <<>>, admitted |-> None, proceed |-> None,
     cb_successes |-> 0, cb_failures |-> 0, rl_records |-> 0,
     outcome |-> NoOutcome, calls |-> 0]

MWObsInit ==
    [start |-> [metrics |-> MiddlewareMetrics__init__, cb |-> CircuitBreaker__init__,
                rl |-> RateLimiter__init__],
     enabled |-> TRUE,
     invocations |-> 0, op_raised |-> <<>>, op_returned |-> None,
     sleeps |-> <<>>, admitted |-> None, proceed |-> None,
     cb_successes |-> 0, cb_failures |-> 0, rl_records |-> 0,
     outcome |-> NoOutcome, calls |-> 0]

\* The caller has started fewer than n enabled execute calls.
CallsLeft(t, n) == mw_obs[t].calls < n

\* The enabled execute calls started so far, by all threads.
RECURSIVE Started(_)
Started(T) ==
    IF T = {} THEN 0
    ELSE LET t == CHOOSE x \in T : TRUE IN mw_obs[t].calls + Started(T \ {t})

At(t, label) == mw_pc[t].at = label
Goto(t, label) == mw_pc' = [mw_pc EXCEPT ![t].at = label]
Finish(t, outcome) ==
    /\ mw_pc' = [mw_pc EXCEPT ![t] = MWIdle]
    /\ mw_obs' = [mw_obs EXCEPT ![t].outcome = outcome]

\* execute(func, estimated_tokens=...): the enabled test and, when enabled,
\* the locked count of the request.  A disabled middleware calls func at once.
Execute(t, estimated_tokens) ==
    /\ At(t, "idle")
    /\ cb_pc[t] = "idle"
    /\ rl_pc[t] = Idle
    /\ IF Disabled(mw_config)
       THEN /\ mw_pc' = [mw_pc EXCEPT ![t] = [MWIdle EXCEPT !.at = "func_disabled"]]
            /\ mw_obs' = [mw_obs EXCEPT ![t] = [MWObsStart EXCEPT !.invocations = 1,
                                                                  !.calls = mw_obs[t].calls]]
            /\ UNCHANGED metrics
       ELSE /\ metrics' = CountRequest(metrics)
            /\ mw_pc' = [mw_pc EXCEPT ![t] =
                            [MWIdle EXCEPT !.at = "can_execute",
                                           !.estimated_tokens = estimated_tokens]]
            /\ mw_obs' = [mw_obs EXCEPT ![t] = [MWObsStart EXCEPT !.calls = mw_obs[t].calls + 1]]
    /\ UNCHANGED <<now, cb, rl, MWFrame>>

\* return func(*args, **kwargs), func returning.
FuncDisabledReturns(t, result) ==
    /\ At(t, "func_disabled")
    /\ mw_pc' = [mw_pc EXCEPT ![t] = MWIdle]
    /\ mw_obs' = [mw_obs EXCEPT ![t].op_returned = Some(result),
                                ![t].outcome = Returned(result)]
    /\ UNCHANGED <<now, cb, rl, metrics, MWFrame>>

\* return func(*args, **kwargs), func raising: the error propagates.
FuncDisabledRaises(t, exception) ==
    /\ At(t, "func_disabled")
    /\ mw_pc' = [mw_pc EXCEPT ![t] = MWIdle]
    /\ mw_obs' = [mw_obs EXCEPT ![t].op_raised = Append(@, exception),
                                ![t].outcome = Raised(exception, None)]
    /\ UNCHANGED <<now, cb, rl, metrics, MWFrame>>

\* self.circuit_breaker.can_execute(): the first lock region, the state read.
MWCanExecute(t) ==
    /\ At(t, "can_execute")
    /\ cb' = StateProperty(cb)
    /\ IF cb'.state = CLOSED
       THEN /\ Goto(t, "can_proceed")
            /\ mw_obs' = [mw_obs EXCEPT ![t].admitted = Some(TRUE)]
       ELSE IF cb'.state = OPEN
       THEN /\ Goto(t, "circuit_rejected")
            /\ mw_obs' = [mw_obs EXCEPT ![t].admitted = Some(FALSE)]
       ELSE /\ Goto(t, "can_execute_half_open")
            /\ UNCHANGED mw_obs
    /\ UNCHANGED <<now, rl, metrics, MWFrame>>

\* can_execute(): the second lock region, the half-open slot.
MWCanExecuteHalfOpen(t) ==
    /\ At(t, "can_execute_half_open")
    /\ IF HalfOpenSlotFree(cb)
       THEN /\ cb' = [cb EXCEPT !.half_open_calls = @ + 1]
            /\ Goto(t, "can_proceed")
            /\ mw_obs' = [mw_obs EXCEPT ![t].admitted = Some(TRUE)]
       ELSE /\ Goto(t, "circuit_rejected")
            /\ mw_obs' = [mw_obs EXCEPT ![t].admitted = Some(FALSE)]
            /\ UNCHANGED cb
    /\ UNCHANGED <<now, rl, metrics, MWFrame>>

\* The rejection is counted under the lock.
MWCircuitRejected(t) ==
    /\ At(t, "circuit_rejected")
    /\ metrics' = CountCircuitRejection(metrics)
    /\ Goto(t, "circuit_open_error")
    /\ UNCHANGED <<now, cb, rl, mw_obs, MWFrame>>

\* raise CircuitOpenError(...): the message reads the state property.
MWCircuitOpenError(t) ==
    /\ At(t, "circuit_open_error")
    /\ cb' = StateProperty(cb)
    /\ Finish(t, Raised("CircuitOpenError", None))
    /\ UNCHANGED <<now, rl, metrics, MWFrame>>

\* self.rate_limiter.can_proceed(estimated_tokens): the clock is read.
MWCanProceed(t) ==
    /\ At(t, "can_proceed")
    /\ mw_pc' = [mw_pc EXCEPT ![t].at = "can_proceed_locked", ![t].n = now]
    /\ UNCHANGED <<now, cb, rl, metrics, mw_obs, MWFrame>>

\* can_proceed: the lock region.
MWCanProceedLocked(t) ==
    /\ At(t, "can_proceed_locked")
    /\ LET r == CanProceedLockRegion(rl, rl_config, mw_pc[t].n, mw_pc[t].estimated_tokens)
       IN  /\ rl' = r.rl
           /\ mw_obs' = [mw_obs EXCEPT ![t].proceed = Some([ok |-> r.ok, wait |-> r.wait])]
           /\ mw_pc' = [mw_pc EXCEPT ![t].at = IF r.ok THEN "loop" ELSE "rate_limited",
                                     ![t].wait = r.wait]
    /\ UNCHANGED <<now, cb, metrics, MWFrame>>

\* The rejection is counted and RateLimitExceededError(wait_time) is raised.
MWRateLimited(t) ==
    /\ At(t, "rate_limited")
    /\ metrics' = CountRateLimitRejection(metrics)
    /\ Finish(t, Raised("RateLimitExceededError", mw_pc[t].wait))
    /\ UNCHANGED <<now, cb, rl, MWFrame>>

\* for attempt in range(max_retries + 1): the next attempt reads start_time and
\* calls func, or the range is used up.
MWLoop(t) ==
    /\ At(t, "loop")
    /\ IF InRange(rh_config, mw_pc[t].attempt)
       THEN /\ mw_pc' = [mw_pc EXCEPT ![t].at = "func", ![t].n = now]
            /\ mw_obs' = [mw_obs EXCEPT ![t].invocations = @ + 1]
       ELSE /\ Goto(t, "exhausted")
            /\ UNCHANGED mw_obs
    /\ UNCHANGED <<now, cb, rl, metrics, MWFrame>>

\* result = func(*args, **kwargs); latency_ms = (time.time() - start_time) * 1000
MWFuncReturns(t, result) ==
    /\ At(t, "func")
    /\ mw_pc' = [mw_pc EXCEPT ![t].at = "record_success", ![t].result = Some(result),
                              ![t].latency = now - mw_pc[t].n]
    /\ mw_obs' = [mw_obs EXCEPT ![t].op_returned = Some(result)]
    /\ UNCHANGED <<now, cb, rl, metrics, MWFrame>>

\* except Exception as e: last_exception = e, and the should_retry decision.
MWFuncRaises(t, exception) ==
    /\ At(t, "func")
    /\ mw_pc' = [mw_pc EXCEPT ![t].last_exception = Some(exception),
                              ![t].at = IF should_retry(rh_config, mw_pc[t].attempt, exception)
                                        THEN "count_retry" ELSE "record_failure"]
    /\ mw_obs' = [mw_obs EXCEPT ![t].op_raised = Append(@, exception)]
    /\ UNCHANGED <<now, cb, rl, metrics, MWFrame>>

\* self.circuit_breaker.record_success()
MWRecordSuccess(t) ==
    /\ At(t, "record_success")
    /\ cb' = RecordSuccessEffect(cb)
    /\ Goto(t, "count_success")
    /\ mw_obs' = [mw_obs EXCEPT ![t].cb_successes = @ + 1]
    /\ UNCHANGED <<now, rl, metrics, MWFrame>>

\* successful_requests += 1; record_latency(latency_ms), under the lock.
MWCountSuccess(t) ==
    /\ At(t, "count_success")
    /\ metrics' = record_latency(CountSuccess(metrics), mw_pc[t].latency)
    /\ Goto(t, "record_request")
    /\ UNCHANGED <<now, cb, rl, mw_obs, MWFrame>>

\* self.rate_limiter.record_request(tokens_used): the clock is read.
MWRecordRequest(t) ==
    /\ At(t, "record_request")
    /\ mw_pc' = [mw_pc EXCEPT ![t].at = "record_request_locked", ![t].n = now]
    /\ UNCHANGED <<now, cb, rl, metrics, mw_obs, MWFrame>>

\* record_request: the lock region; then return result, unless tokens were used.
MWRecordRequestLocked(t) ==
    /\ At(t, "record_request_locked")
    /\ LET tokens_used == _extract_tokens(mw_pc[t].result[1])
       IN  /\ rl' = RecordRequestLockRegion(rl, mw_pc[t].n, tokens_used)
           /\ IF tokens_used > 0
              THEN /\ Goto(t, "count_tokens")
                   /\ mw_obs' = [mw_obs EXCEPT ![t].rl_records = @ + 1]
              ELSE /\ mw_pc' = [mw_pc EXCEPT ![t] = MWIdle]
                   /\ mw_obs' = [mw_obs EXCEPT ![t].rl_records = @ + 1,
                                               ![t].outcome = Returned(mw_pc[t].result[1])]
    /\ UNCHANGED <<now, cb, metrics, MWFrame>>

\* total_tokens_received += tokens_used; return result
MWCountTokens(t) ==
    /\ At(t, "count_tokens")
    /\ metrics' = CountTokens(metrics, _extract_tokens(mw_pc[t].result[1]))
    /\ Finish(t, Returned(mw_pc[t].result[1]))
    /\ UNCHANGED <<now, cb, rl, MWFrame>>

\* Not retried: self.circuit_breaker.record_failure()
MWRecordFailure(t) ==
    /\ At(t, "record_failure")
    /\ cb' = RecordFailureEffect(cb)
    /\ Goto(t, "count_failure")
    /\ mw_obs' = [mw_obs EXCEPT ![t].cb_failures = @ + 1]
    /\ UNCHANGED <<now, rl, metrics, MWFrame>>

\* failed_requests += 1; raise
MWCountFailure(t) ==
    /\ At(t, "count_failure")
    /\ metrics' = CountFailure(metrics)
    /\ Finish(t, Raised(mw_pc[t].last_exception[1], None))
    /\ UNCHANGED <<now, cb, rl, MWFrame>>

\* Mutant: an attempt that is retried is reported to the breaker as a failure.
MWCountRetry_records_failure(t, draw) ==
    /\ At(t, "count_retry")
    /\ metrics' = CountRetry(metrics)
    /\ cb' = RecordFailureEffect(cb)
    /\ LET delay == calculate_delay(rh_config, mw_pc[t].attempt, draw)
       IN  /\ mw_pc' = [mw_pc EXCEPT ![t].at = "sleep", ![t].n = now, ![t].delay = delay]
           /\ mw_obs' = [mw_obs EXCEPT ![t].sleeps = Append(@, delay),
                                       ![t].cb_failures = @ + 1]
    /\ UNCHANGED <<now, rl, MWFrame>>

\* Retried: retried_requests += 1, delay = calculate_delay(attempt), and the
\* thread goes to sleep.
MWCountRetry(t, draw) ==
    /\ At(t, "count_retry")
    /\ metrics' = CountRetry(metrics)
    /\ LET delay == calculate_delay(rh_config, mw_pc[t].attempt, draw)
       IN  /\ mw_pc' = [mw_pc EXCEPT ![t].at = "sleep", ![t].n = now, ![t].delay = delay]
           /\ mw_obs' = [mw_obs EXCEPT ![t].sleeps = Append(@, delay)]
    /\ UNCHANGED <<now, cb, rl, MWFrame>>

\* time.sleep(delay) returns once delay has passed; the loop goes on.
MWWake(t) ==
    /\ At(t, "sleep")
    /\ now - mw_pc[t].n >= mw_pc[t].delay
    /\ mw_pc' = [mw_pc EXCEPT ![t].at = "loop", ![t].attempt = @ + 1]
    /\ UNCHANGED <<now, cb, rl, metrics, mw_obs, MWFrame>>

\* After the loop: self.circuit_breaker.record_failure()
MWExhausted(t) ==
    /\ At(t, "exhausted")
    /\ cb' = RecordFailureEffect(cb)
    /\ Goto(t, "count_exhausted")
    /\ mw_obs' = [mw_obs EXCEPT ![t].cb_failures = @ + 1]
    /\ UNCHANGED <<now, rl, metrics, MWFrame>>

\* failed_requests += 1; if last_exception: raise last_exception.  Otherwise
\* the function ends and the call returns None.
MWCountExhausted(t) ==
    /\ At(t, "count_exhausted")
    /\ metrics' = CountFailure(metrics)
    /\ IF mw_pc[t].last_exception # None
       THEN Finish(t, Raised(mw_pc[t].last_exception[1], None))
       ELSE Finish(t, [NoOutcome EXCEPT !.kind = "return_none"])
    /\ UNCHANGED <<now, cb, rl, MWFrame>>

\* The locks of a ProductionMiddleware: its own and those of its breaker and
\* its limiter.
Locks == {"_lock", "circuit_breaker._lock", "rate_limiter._lock"}

\* The lock the step a thread takes from a label runs under.
Acquires(label) ==
    CASE label \in {"can_execute", "can_execute_half_open", "circuit_open_error",
                    "record_success", "record_failure", "exhausted"}
            -> {"circuit_breaker._lock"}
      [] label \in {"can_proceed_locked", "record_request_locked"}
            -> {"rate_limiter._lock"}
      [] label \in {"idle", "circuit_rejected", "rate_limited", "count_success",
                    "count_tokens", "count_failure", "count_retry", "count_exhausted"}
            -> {"_lock"}
      [] OTHER -> {}

\* Mutant: the backoff sleep is inside the `with self._lock` block of the retry count.
Held_through_sleep(label) == IF label = "sleep" THEN {"_lock"} ELSE {}

\* The locks a thread holds while it rests at a label: every `with` block is
\* left before the step ends, so none.
Held(label) == {}

\* No other thread holds a lock that the next step of t takes.
LocksFree(t) ==
    \A u \in Threads \ {t} : Acquires(mw_pc[t].at) \cap Held(mw_pc[u].at) = {}

\* ProductionMiddleware.reset(), first statement: self.circuit_breaker.reset()
MWReset(t) ==
    /\ At(t, "idle")
    /\ cb_pc[t] = "idle"
    /\ rl_pc[t] = Idle
    /\ cb' = ResetEffect(cb)
    /\ Goto(t, "reset_metrics")
    /\ mw_obs' = [mw_obs EXCEPT ![t] =
                      [MWObsStart EXCEPT !.calls = mw_obs[t].calls,
                                         !.outcome = [NoOutcome EXCEPT !.kind = "in_reset"]]]
    /\ UNCHANGED <<now, rl, metrics, MWFrame>>

\* ProductionMiddleware.reset(), second statement: self.metrics = MiddlewareMetrics()
MWResetMetrics(t) ==
    /\ At(t, "reset_metrics")
    /\ metrics' = MiddlewareMetrics__init__
    /\ Finish(t, [NoOutcome EXCEPT !.kind = "reset"])
    /\ UNCHANGED <<now, cb, rl, MWFrame>>

\* Before its first execute a caller records failures on the breaker, until it
\* opens, and requests on the limiter directly, as the tests do.
Setup(t) == At(t, "idle") /\ mw_obs[t] = MWObsInit

DirectRecordFailure(t) ==
    /\ Setup(t)
    /\ cb.state = CLOSED
    /\ cb' = RecordFailureEffect(cb)
    /\ UNCHANGED <<now, rl, metrics, mw_pc, mw_obs, MWFrame>>
DirectRecordRequest(t, k) ==
    /\ Setup(t)
    /\ Len(rl.request_timestamps) < MaxDirect
    /\ RecordRequest(t, k)
DirectRecordRequestLocked(t) == RecordRequestLocked(t)

\* ------------------------------------------------- the default instance
\* ProductionMiddleware(config): a fresh breaker and fresh metrics.
ProductionMiddleware__init__(config) ==
    [config |-> config, circuit_breaker |-> CircuitBreaker__init__,
     metrics |-> MiddlewareMetrics__init__]

\* MiddlewareConfig(): enabled defaults to True.
DefaultConfig == [enabled |-> TRUE]

\* Mutant: the lock excludes nobody.
LockFree_always(lock) == TRUE

\* `with _middleware_lock` can be entered.
LockFree(lock) == lock = {}

\* Mutant: the object is not new: the last one constructed is rebuilt in place.
Construct_in_place(insts, config) ==
    IF insts = <<>>
    THEN <<ProductionMiddleware__init__(config)>>
    ELSE [insts EXCEPT ![Len(insts)] = ProductionMiddleware__init__(config)]

\* ProductionMiddleware(config) allocates a new object.
Construct(insts, config) == Append(insts, ProductionMiddleware__init__(config))

\* ProductionMiddleware.reset(), first statement: self.circuit_breaker.reset()
ResetBreakerOf(inst) == [inst EXCEPT !.circuit_breaker = ResetEffect(@)]

\* ProductionMiddleware.reset(), second statement: self.metrics = MiddlewareMetrics()
ResetMetricsOf(inst) == [inst EXCEPT !.metrics = MiddlewareMetrics__init__]

GIdle(ref) == [at |-> "idle", config |-> DefaultConfig, ref |-> ref]

GObsInit ==
    [returned_before |-> {}, returned_since |-> {}, constructed_by_get |-> 0,
     contended |-> FALSE, reset_dirty |-> FALSE]

GAt(t, label) == g_pc[t].at = label
GGoto(t, label) == g_pc' = [g_pc EXCEPT ![t].at = label]

\* get_middleware() is called; the thread is at `with _middleware_lock`.
GetMiddleware(t) ==
    /\ GAt(t, "idle")
    /\ GGoto(t, "get_lock")
    /\ UNCHANGED <<_middleware, _middleware_lock, instances, g_obs, GFrame>>

\* The lock is taken.
GetMiddlewareLocked(t) ==
    /\ GAt(t, "get_lock")
    /\ LockFree(_middleware_lock)
    /\ _middleware_lock' = _middleware_lock \cup {t}
    /\ GGoto(t, "get_check")
    /\ g_obs' = [g_obs EXCEPT !.contended =
                    @ \/ (_middleware = None /\ \E u \in Threads \ {t} : GAt(u, "get_lock"))]
    /\ UNCHANGED <<_middleware, instances, GFrame>>

\* if _middleware is None:
GetMiddlewareCheck(t) ==
    /\ GAt(t, "get_check")
    /\ GGoto(t, IF _middleware = None THEN "get_construct" ELSE "get_return")
    /\ UNCHANGED <<_middleware, _middleware_lock, instances, g_obs, GFrame>>

\* _middleware = ProductionMiddleware()
GetMiddlewareConstruct(t) ==
    /\ GAt(t, "get_construct")
    /\ instances' = Construct(instances, DefaultConfig)
    /\ _middleware' = Some(Len(instances'))
    /\ GGoto(t, "get_return")
    /\ g_obs' = [g_obs EXCEPT !.constructed_by_get = @ + 1]
    /\ UNCHANGED <<_middleware_lock, GFrame>>

\* return _middleware, and the lock is released.
GetMiddlewareReturn(t) ==
    /\ GAt(t, "get_return")
    /\ g_pc' = [g_pc EXCEPT ![t] = GIdle(_middleware)]
    /\ _middleware_lock' = _middleware_lock \ {t}
    /\ g_obs' = [g_obs EXCEPT !.returned_since = @ \cup {_middleware[1]}]
    /\ UNCHANGED <<_middleware, instances, GFrame>>

\* configure_middleware(config) is called and takes the lock.
ConfigureMiddleware(t, config) ==
    /\ GAt(t, "idle")
    /\ Len(instances) < MaxInstances
    /\ LockFree(_middleware_lock)
    /\ _middleware_lock' = _middleware_lock \cup {t}
    /\ g_pc' = [g_pc EXCEPT ![t].at = "configure", ![t].config = config]
    /\ UNCHANGED <<_middleware, instances, g_obs, GFrame>>

\* _middleware = ProductionMiddleware(config), and the lock is released.
ConfigureMiddlewareConstruct(t) ==
    /\ GAt(t, "configure")
    /\ instances' = Construct(instances, g_pc[t].config)
    /\ _middleware' = Some(Len(instances'))
    /\ _middleware_lock' = _middleware_lock \ {t}
    /\ g_pc' = [g_pc EXCEPT ![t] = GIdle(g_pc[t].ref)]
    /\ g_obs' = [g_obs EXCEPT !.returned_before = @ \cup g_obs.returned_since,
                              !.returned_since = {},
                              !.constructed_by_get = 0]
    /\ UNCHANGED GFrame

\* reset_middleware() is called and takes the lock.
ResetMiddleware(t) ==
    /\ GAt(t, "idle")
    /\ LockFree(_middleware_lock)
    /\ _middleware_lock' = _middleware_lock \cup {t}
    /\ GGoto(t, "reset")
    /\ UNCHANGED <<_middleware, instances, g_obs, GFrame>>

\* if _middleware: _middleware.reset(), its first statement; with no instance
\* the lock is released at once.
ResetMiddlewareBreaker(t) ==
    /\ GAt(t, "reset")
    /\ IF _middleware # None
       THEN /\ instances' = [instances EXCEPT ![_middleware[1]] = ResetBreakerOf(@)]
            /\ GGoto(t, "reset_metrics")
            /\ g_obs' = [g_obs EXCEPT !.reset_dirty =
                            instances[_middleware[1]] #
                                ProductionMiddleware__init__(instances[_middleware[1]].config)]
            /\ UNCHANGED _middleware_lock
       ELSE /\ _middleware_lock' = _middleware_lock \ {t}
            /\ GGoto(t, "idle")
            /\ UNCHANGED <<instances, g_obs>>
    /\ UNCHANGED <<_middleware, GFrame>>

\* _middleware.reset(), its second statement, and the lock is released.
ResetMiddlewareMetrics(t) ==
    /\ GAt(t, "reset_metrics")
    /\ instances' = [instances EXCEPT ![_middleware[1]] = ResetMetricsOf(@)]
    /\ _middleware_lock' = _middleware_lock \ {t}
    /\ GGoto(t, "idle")
    /\ UNCHANGED <<_middleware, g_obs, GFrame>>

\* A thread uses the instance it got: mw.circuit_breaker.record_failure()
InstanceRecordFailure(t) ==
    /\ GAt(t, "idle")
    /\ g_pc[t].ref # None
    /\ instances[g_pc[t].ref[1]].circuit_breaker.state = CLOSED
    /\ instances' = [instances EXCEPT ![g_pc[t].ref[1]].circuit_breaker = RecordFailureEffect(@)]
    /\ UNCHANGED <<_middleware, _middleware_lock, g_pc, g_obs, GFrame>>

\* A thread uses the instance it got: mw.record_tokens_sent(tokens)
InstanceRecordTokensSent(t, tokens) ==
    /\ GAt(t, "idle")
    /\ g_pc[t].ref # None
    /\ instances[g_pc[t].ref[1]].metrics.total_tokens_sent < MaxSent
    /\ instances' = [instances EXCEPT ![g_pc[t].ref[1]].metrics.total_tokens_sent = @ + tokens]
    /\ UNCHANGED <<_middleware, _middleware_lock, g_pc, g_obs, GFrame>>

\* ------------------------------------------------------------------ the locks
\* Every method is reduced to the acquisitions and releases of threading.Lock
\* objects it makes, in program order; which branch a call takes is left open.
AllLocks == Locks \cup {"_middleware_lock"}

Region(lock) == << <<"acquire", lock>>, <<"release", lock>> >>

\* CircuitBreaker.state
state_locks == Region("circuit_breaker._lock")

\* CircuitBreaker.can_execute: the state property, then the HALF_OPEN block.
can_execute_locks == {state_locks, state_locks \o Region("circuit_breaker._lock")}

\* CircuitBreaker.record_success, record_failure, reset
record_outcome_locks == Region("circuit_breaker._lock")

\* RateLimiter.can_proceed, record_request
rate_limiter_locks == Region("rate_limiter._lock")

\* with self._lock: self.metrics.<counter> += ...
count_locks == Region("_lock")

\* The retries of execute: the retried count and the sleep, n times.
RECURSIVE retry_locks(_)
retry_locks(n) == IF n = 0 THEN <<>> ELSE count_locks \o retry_locks(n - 1)

\* ProductionMiddleware.execute, every path through it.
execute_locks ==
    {<<>>}
    \cup {count_locks \o ce \o count_locks \o state_locks : ce \in can_execute_locks}
    \cup {count_locks \o ce \o rate_limiter_locks \o count_locks : ce \in can_execute_locks}
    \cup {count_locks \o ce \o rate_limiter_locks \o retry_locks(n)
             \o record_outcome_locks \o count_locks \o rate_limiter_locks \o tokens :
                ce \in can_execute_locks, n \in 0..MaxLockRetries, tokens \in {<<>>, count_locks}}
    \cup {count_locks \o ce \o rate_limiter_locks \o retry_locks(n)
             \o record_outcome_locks \o count_locks :
                ce \in can_execute_locks, n \in 0..MaxLockRetries}

\* record_cost, record_tokens_sent
record_cost_locks == count_locks

\* get_metrics takes no lock; get_status reads circuit_breaker.state.
get_metrics_locks == <<>>
get_status_locks == state_locks \o get_metrics_locks

\* Mutant: reset() returns through the module-level lock.
reset_locks_through_global ==
    <<<<"acquire", "circuit_breaker._lock">>, <<"acquire", "_middleware_lock">>,
      <<"release", "_middleware_lock">>, <<"release", "circuit_breaker._lock">>>>

\* ProductionMiddleware.reset: circuit_breaker.reset(), then the assignment.
reset_locks == record_outcome_locks

\* get_middleware, configure_middleware: the constructor takes no lock.
get_middleware_locks == Region("_middleware_lock")

\* reset_middleware: _middleware.reset() is called inside the lock, if at all.
reset_middleware_locks ==
    {Region("_middleware_lock"),
     <<<<"acquire", "_middleware_lock">>>> \o reset_locks
        \o <<<<"release", "_middleware_lock">>>>}

Calls ==
    execute_locks \cup reset_middleware_locks
        \cup {get_metrics_locks, get_status_locks, reset_locks, record_cost_locks,
              get_middleware_locks}

\* A thread calls one of the methods.
LockCall(t, call) ==
    /\ lk_pc[t] = <<>>
    /\ call # <<>>
    /\ lk_pc' = [lk_pc EXCEPT ![t] = call]
    /\ UNCHANGED <<now, cbvars, rlvars, rhvars, mwvars, gvars, lock_holder>>

\* lock.acquire(): threading.Lock is not re-entrant, the holder waits too.
LockAcquire(t) ==
    /\ lk_pc[t] # <<>>
    /\ lk_pc[t][1][1] = "acquire"
    /\ lock_holder[lk_pc[t][1][2]] = None
    /\ lock_holder' = [lock_holder EXCEPT ![lk_pc[t][1][2]] = Some(t)]
    /\ lk_pc' = [lk_pc EXCEPT ![t] = Tail(@)]
    /\ UNCHANGED <<now, cbvars, rlvars, rhvars, mwvars, gvars>>

\* lock.release(), at the end of the with block.
LockRelease(t) ==
    /\ lk_pc[t] # <<>>
    /\ lk_pc[t][1][1] = "release"
    /\ lock_holder' = [lock_holder EXCEPT ![lk_pc[t][1][2]] = None]
    /\ lk_pc' = [lk_pc EXCEPT ![t] = Tail(@)]
    /\ UNCHANGED <<now, cbvars, rlvars, rhvars, mwvars, gvars>>

\* ---------------------------------------------------------- specifications
CBQuiet ==
    /\ cb_config = [failure_threshold |-> 1, recovery_timeout |-> Step,
                    half_open_max_calls |-> 1, success_threshold |-> 1]
    /\ cb = CircuitBreaker__init__
    /\ cb_pc = [t \in Threads |-> "idle"]
    /\ cb_obs = ObsInit

RLQuiet ==
    /\ rl_config = [requests_per_minute |-> 1, tokens_per_minute |-> 2,
                    burst_allowance |-> <<1, 1>>]
    /\ rl = RateLimiter__init__
    /\ rl_pc = [t \in Threads |-> Idle]
    /\ rl_obs = RLObsInit

RHQuiet ==
    /\ rh_config = [max_retries |-> 0, base_delay |-> 0, max_delay |-> 0,
                    exponential_base |-> 1, jitter |-> <<0, 1>>]
    /\ rh_obs = RHObsInit

MWQuiet ==
    /\ mw_config = [enabled |-> TRUE]
    /\ metrics = MiddlewareMetrics__init__
    /\ mw_pc = [t \in Threads |-> MWIdle]
    /\ mw_obs = [t \in Threads |-> MWObsInit]

LKQuiet ==
    /\ lock_holder = [l \in AllLocks |-> None]
    /\ lk_pc = [t \in Threads |-> <<>>]

GQuiet ==
    /\ _middleware = None
    /\ _middleware_lock = {}
    /\ instances = <<>>
    /\ g_pc = [t \in Threads |-> GIdle(None)]
    /\ g_obs = GObsInit
    /\ LKQuiet

InitCB ==
    /\ now = Step
    /\ cb_config \in CircuitBreakerConfig
    /\ cb = CircuitBreaker__init__
    /\ cb_pc = [t \in Threads |-> "idle"]
    /\ cb_obs = ObsInit
    /\ RLQuiet
    /\ RHQuiet
    /\ MWQuiet
    /\ GQuiet

NextCB ==
    \/ Tick
    \/ \E t \in Threads : State(t)
    \/ \E t \in Threads : CanExecute(t)
    \/ \E t \in Threads : CanExecuteHalfOpen(t)
    \/ \E t \in Threads : RecordSuccess(t)
    \/ \E t \in Threads : RecordFailure(t)
    \/ \E t \in Threads : Reset(t)

SpecCB == InitCB /\ [][NextCB]_vars

\* The breaker again, with the configurations the dataclass also accepts: no
\* trial calls at all, or a negative number of them.
AnyCapConfig ==
    [failure_threshold : 1..2,
     recovery_timeout : {Step},
     half_open_max_calls : -1..2,
     success_threshold : 1..2]

InitCBW ==
    /\ now = Step
    /\ cb_config \in AnyCapConfig
    /\ cb = CircuitBreaker__init__
    /\ cb_pc = [t \in Threads |-> "idle"]
    /\ cb_obs = ObsInit
    /\ RLQuiet
    /\ RHQuiet
    /\ MWQuiet
    /\ GQuiet

SpecCBW == InitCBW /\ [][NextCB]_vars

InitRL ==
    /\ now = Step
    /\ rl_config \in RateLimiterConfig
    /\ rl = RateLimiter__init__
    /\ rl_pc = [t \in Threads |-> Idle]
    /\ rl_obs = RLObsInit
    /\ CBQuiet
    /\ RHQuiet
    /\ MWQuiet
    /\ GQuiet

NextRL ==
    \/ Tick
    \/ \E t \in Threads, e \in EstimatedTokensArgs : CanProceed(t, e)
    \/ \E t \in Threads : CanProceedLocked(t)
    \/ \E t \in Threads, k \in TokensUsedArgs : RecordRequest(t, k)
    \/ \E t \in Threads : RecordRequestLocked(t)

SpecRL == InitRL /\ [][NextRL]_vars

InitRH ==
    /\ now = Step
    /\ rh_config \in RetryConfig
    /\ rh_obs = RHObsInit
    /\ CBQuiet
    /\ RLQuiet
    /\ MWQuiet
    /\ GQuiet

NextRH ==
    \/ \E a \in 0..MaxAttempt, e \in Errors : ShouldRetryCall(a, e)
    \/ \E a \in 0..MaxAttempt, d \in JitterDraws : CalculateDelayCall(a, d)

SpecRH == InitRH /\ [][NextRH]_vars

\* One caller at a time uses a ProductionMiddleware: direct calls to its breaker
\* and limiter, then execute calls.
Caller == {"t1"}

MWCircuitBreakerConfig ==
    [failure_threshold : 1..2, recovery_timeout : {Step},
     half_open_max_calls : {1}, success_threshold : {1}]

MWRateLimiterConfig ==
    [requests_per_minute : 1..2, tokens_per_minute : {2}, burst_allowance : {<<1, 1>>}]

MWRetryConfig ==
    [max_retries : -1..2, base_delay : {10}, max_delay : {600},
     exponential_base : {2}, jitter : {<<0, 1>>}]

InitMW ==
    /\ now = Step
    /\ mw_config \in MiddlewareConfig
    /\ cb_config \in MWCircuitBreakerConfig
    /\ rl_config \in MWRateLimiterConfig
    /\ rh_config \in MWRetryConfig
    /\ cb = CircuitBreaker__init__
    /\ cb_pc = [t \in Threads |-> "idle"]
    /\ cb_obs = ObsInit
    /\ rl = RateLimiter__init__
    /\ rl_pc = [t \in Threads |-> Idle]
    /\ rl_obs = RLObsInit
    /\ rh_obs = RHObsInit
    /\ metrics = MiddlewareMetrics__init__
    /\ mw_pc = [t \in Threads |-> MWIdle]
    /\ mw_obs = [t \in Threads |-> MWObsInit]
    /\ GQuiet

\* A step of a call that has started; a step under a lock waits for the lock.
ExecuteStep(t) ==
  /\ LocksFree(t)
  /\
    \/ \E r \in Results : FuncDisabledReturns(t, r)
    \/ \E x \in Errors : FuncDisabledRaises(t, x)
    \/ MWCanExecute(t)
    \/ MWCanExecuteHalfOpen(t)
    \/ MWCircuitRejected(t)
    \/ MWCircuitOpenError(t)
    \/ MWCanProceed(t)
    \/ MWCanProceedLocked(t)
    \/ MWRateLimited(t)
    \/ MWLoop(t)
    \/ \E r \in Results : MWFuncReturns(t, r)
    \/ \E x \in Errors : MWFuncRaises(t, x)
    \/ MWRecordSuccess(t)
    \/ MWCountSuccess(t)
    \/ MWRecordRequest(t)
    \/ MWRecordRequestLocked(t)
    \/ MWCountTokens(t)
    \/ MWRecordFailure(t)
    \/ MWCountFailure(t)
    \/ \E d \in JitterDraws : MWCountRetry(t, d)
    \/ MWWake(t)
    \/ MWExhausted(t)
    \/ MWCountExhausted(t)

NextMW1 ==
    \/ Tick
    \/ \E t \in Caller, e \in EstimatedTokensArgs :
          CallsLeft(t, MaxCalls) /\ LocksFree(t) /\ Execute(t, e)
    \/ \E t \in Caller : ExecuteStep(t)
    \/ \E t \in Caller : DirectRecordFailure(t)
    \/ \E t \in Caller, k \in TokensUsedArgs : DirectRecordRequest(t, k)
    \/ \E t \in Caller : DirectRecordRequestLocked(t)

SpecMW1 == InitMW /\ [][NextMW1]_vars

\* The same caller, who may also call reset() whenever it is not inside execute.
InitMWR ==
    /\ InitMW
    /\ cb_config.failure_threshold = 1
    /\ rh_config.max_retries \in {-1, 1}

NextMWR ==
    \/ NextMW1
    \/ \E t \in Caller : MWReset(t)
    \/ \E t \in Caller : MWResetMetrics(t)

SpecMWR == InitMWR /\ [][NextMWR]_vars

\* Several threads call execute on one enabled ProductionMiddleware.
InitMW2 ==
    /\ InitMW
    /\ mw_config = [enabled |-> TRUE]
    /\ cb_config.failure_threshold = 1
    /\ rl_config.requests_per_minute = 1
    /\ rh_config.max_retries = 1

EnabledStep(t) ==
    \/ MWCanExecute(t)
    \/ MWCanExecuteHalfOpen(t)
    \/ MWCircuitRejected(t)
    \/ MWCircuitOpenError(t)
    \/ MWCanProceed(t)
    \/ MWCanProceedLocked(t)
    \/ MWRateLimited(t)
    \/ MWLoop(t)
    \/ \E r \in Results : MWFuncReturns(t, r)
    \/ \E x \in {"retryable_1", "non_retryable"} : MWFuncRaises(t, x)
    \/ MWRecordSuccess(t)
    \/ MWCountSuccess(t)
    \/ MWRecordRequest(t)
    \/ MWRecordRequestLocked(t)
    \/ MWCountTokens(t)
    \/ MWRecordFailure(t)
    \/ MWCountFailure(t)
    \/ MWCountRetry(t, 0)
    \/ MWWake(t)

\* Here the clock is advanced only while a thread is in a backoff sleep that is
\* not over yet.
TickAsleep ==
    /\ \E t \in Threads : At(t, "sleep") /\ now - mw_pc[t].n < mw_pc[t].delay
    /\ Tick

NextMW2 ==
    \/ TickAsleep
    \/ \E t \in Threads : Started(Threads) < MaxStarted /\ LocksFree(t) /\ Execute(t, 0)
    \/ \E t \in Threads : LocksFree(t) /\ EnabledStep(t)

SpecMW2 == InitMW2 /\ [][NextMW2]_vars

\* The same threads, one of which may also call reset() between its execute
\* calls, while the other thread is inside execute or not.
Resetter == Threads \ Caller

NextMW2R ==
    \/ NextMW2
    \/ \E t \in Resetter : MWReset(t)
    \/ \E t \in Resetter : MWResetMetrics(t)

SpecMW2R == InitMW2 /\ [][NextMW2R]_vars

\* One caller makes several execute calls in a row on a fresh enabled
\* ProductionMiddleware; nothing else touches its breaker or its limiter.
InitMW3 ==
    /\ InitMW
    /\ mw_config = [enabled |-> TRUE]
    /\ rh_config.max_retries \in {0, 1}

NextMW3 ==
    \/ Tick
    \/ \E t \in Caller, e \in EstimatedTokensArgs :
          CallsLeft(t, MaxSeqCalls) /\ LocksFree(t) /\ Execute(t, e)
    \/ \E t \in Caller : LocksFree(t) /\ EnabledStep(t)

SpecMW3 == InitMW3 /\ [][NextMW3]_vars

\* A MiddlewareMetrics object that has recorded n latency samples already,
\* n up to the capacity of the deque, and records a few more.
LatencySamples == {10, 25}
OldSamples(n) == [i \in 1..n |-> i % 2]

RecordedMetrics(n) ==
    IF n = 0 THEN MiddlewareMetrics__init__
    ELSE [MiddlewareMetrics__init__ EXCEPT
             !.latencies = OldSamples(n),
             !.average_latency_ms = <<SumSeq(OldSamples(n)), n>>]

NewSamples(m) == Cardinality({i \in 1..Len(m.latencies) : m.latencies[i] \in LatencySamples})

InitML ==
    /\ now = Step
    /\ CBQuiet
    /\ RLQuiet
    /\ RHQuiet
    /\ GQuiet
    /\ mw_config = [enabled |-> TRUE]
    /\ mw_pc = [t \in Threads |-> MWIdle]
    /\ mw_obs = [t \in Threads |-> MWObsInit]
    /\ \E n \in 0..LatencyCapacity : metrics = RecordedMetrics(n)

\* metrics.record_latency(latency_ms)
RecordLatency(latency) ==
    /\ NewSamples(metrics) < MaxSamples
    /\ metrics' = record_latency(metrics, latency)
    /\ UNCHANGED <<now, cbvars, rlvars, rhvars, gvars, lkvars, mw_config, mw_pc, mw_obs>>

NextML == \E latency \in LatencySamples : RecordLatency(latency)

SpecML == InitML /\ [][NextML]_vars

\* One caller on an enabled ProductionMiddleware whose RetryConfig has jitter
\* and a max_delay that the exponential delay reaches.
MWJitterConfig ==
    [max_retries : 1..2, base_delay : {10}, max_delay : {10, 600},
     exponential_base : {2}, jitter : {<<0, 1>>, <<1, 10>>}]

InitMWJ ==
    /\ now = Step
    /\ mw_config = [enabled |-> TRUE]
    /\ cb_config \in MWCircuitBreakerConfig
    /\ rl_config \in MWRateLimiterConfig
    /\ rh_config \in MWJitterConfig
    /\ cb = CircuitBreaker__init__
    /\ cb_pc = [t \in Threads |-> "idle"]
    /\ cb_obs = ObsInit
    /\ rl = RateLimiter__init__
    /\ rl_pc = [t \in Threads |-> Idle]
    /\ rl_obs = RLObsInit
    /\ rh_obs = RHObsInit
    /\ metrics = MiddlewareMetrics__init__
    /\ mw_pc = [t \in Threads |-> MWIdle]
    /\ mw_obs = [t \in Threads |-> MWObsInit]
    /\ GQuiet

\* The steps of an enabled call; with one caller and a clock that moves only
\* during sleeps the breaker is never found HALF_OPEN.
JitterStep(t) ==
    \/ MWCanExecute(t)
    \/ MWCircuitRejected(t)
    \/ MWCircuitOpenError(t)
    \/ MWCanProceed(t)
    \/ MWCanProceedLocked(t)
    \/ MWRateLimited(t)
    \/ MWLoop(t)
    \/ \E r \in Results : MWFuncReturns(t, r)
    \/ \E x \in {"retryable_1", "non_retryable"} : MWFuncRaises(t, x)
    \/ MWRecordSuccess(t)
    \/ MWCountSuccess(t)
    \/ MWRecordRequest(t)
    \/ MWRecordRequestLocked(t)
    \/ MWCountTokens(t)
    \/ MWRecordFailure(t)
    \/ MWCountFailure(t)
    \/ \E d \in JitterDraws : MWCountRetry(t, d)
    \/ MWWake(t)

NextMWJ ==
    \/ TickAsleep
    \/ \E t \in Caller : Started(Caller) < MaxStarted /\ LocksFree(t) /\ Execute(t, 0)
    \/ \E t \in Caller : LocksFree(t) /\ JitterStep(t)

SpecMWJ == InitMWJ /\ [][NextMWJ]_vars

\* One caller on an enabled ProductionMiddleware with max_retries >= 0, under
\* the assumptions that make a call end: the operation returns or raises, a
\* thread that can take a step does, and time passes while a thread sleeps.
\* Between calls the clock may advance or not.  A call is started only while
\* the clock can still advance far enough for all its backoff sleeps.
InitMWL ==
    /\ InitMW
    /\ mw_config = [enabled |-> TRUE]
    /\ rh_config.max_retries >= 0

TickIdle ==
    /\ \A t \in Threads : At(t, "idle")
    /\ Tick

TimeLeft == now + rh_config.max_retries * Step <= MaxTime

CallerStep == \E t \in Caller : LocksFree(t) /\ EnabledStep(t)

NextMWL ==
    \/ TickIdle
    \/ TickAsleep
    \/ \E t \in Caller, e \in EstimatedTokensArgs :
          Started(Caller) < MaxStarted /\ TimeLeft /\ LocksFree(t) /\ Execute(t, e)
    \/ CallerStep

SpecMWL ==
    /\ InitMWL
    /\ [][NextMWL]_vars
    /\ WF_vars(CallerStep)
    /\ WF_vars(TickAsleep)

\* The same caller, who keeps calling execute as long as it may and whose
\* calls go on to their end: every invocation of the operation completes and
\* every sleep ends.  The clock may advance or not.
KeepsCalling ==
    \E t \in Caller, e \in EstimatedTokensArgs :
        CallsLeft(t, MaxSeqCalls) /\ LocksFree(t) /\ Execute(t, e)

SpecMW3L ==
    /\ SpecMW3
    /\ WF_vars(KeepsCalling)
    /\ WF_vars(CallerStep)
    /\ WF_vars(TickAsleep)

\* The module global and the threads that get, configure and reset it.
\* The threads call the methods of one ProductionMiddleware, the default
\* instance, and the module functions, in any order and at any time.  A thread
\* that can take a lock again and again takes it at some time, and a thread
\* inside a with block leaves it.
InitLK ==
    /\ now = Step
    /\ CBQuiet
    /\ RLQuiet
    /\ RHQuiet
    /\ MWQuiet
    /\ GQuiet

NextLK ==
    \/ \E t \in Threads, call \in Calls : LockCall(t, call)
    \/ \E t \in Threads : LockAcquire(t)
    \/ \E t \in Threads : LockRelease(t)

SpecLK ==
    /\ InitLK
    /\ [][NextLK]_vars
    /\ \A t \in Threads : SF_vars(LockAcquire(t)) /\ WF_vars(LockRelease(t))

InitG ==
    /\ now = Step
    /\ GQuiet
    /\ CBQuiet
    /\ RLQuiet
    /\ RHQuiet
    /\ MWQuiet

NextG ==
    \/ \E t \in Threads : GetMiddleware(t)
    \/ \E t \in Threads : GetMiddlewareLocked(t)
    \/ \E t \in Threads : GetMiddlewareCheck(t)
    \/ \E t \in Threads : GetMiddlewareConstruct(t)
    \/ \E t \in Threads : GetMiddlewareReturn(t)
    \/ \E t \in Threads, c \in MiddlewareConfig : ConfigureMiddleware(t, c)
    \/ \E t \in Threads : ConfigureMiddlewareConstruct(t)
    \/ \E t \in Threads : ResetMiddleware(t)
    \/ \E t \in Threads : ResetMiddlewareBreaker(t)
    \/ \E t \in Threads : ResetMiddlewareMetrics(t)
    \/ \E t \in Threads : InstanceRecordFailure(t)
    \/ \E t \in Threads, k \in TokensUsedArgs \ {0} : InstanceRecordTokensSent(t, k)

SpecG == InitG /\ [][NextG]_vars

\* ------------------------------------------------- CircuitBreaker contracts
\* Time since the last recorded failure is short of the recovery timeout.
BeforeRecovery ==
    /\ cb.last_failure_time # None
    /\ now - cb.last_failure_time[1] < cb_config.recovery_timeout

AfterRecovery ==
    /\ cb.last_failure_time # None
    /\ now - cb.last_failure_time[1] >= cb_config.recovery_timeout

StateReadStep == \E t \in Threads : State(t) \/ CanExecute(t)

\* C1: after failure_threshold consecutive record_failure() calls (no
\* record_success() or reset() among them) that began on a CLOSED breaker, the
\* state read before the recovery timeout has elapsed is OPEN.
C1_OpensAfterThresholdFailures ==
    (/\ cb_obs.from_closed
     /\ cb_obs.streak >= cb_config.failure_threshold
     /\ BeforeRecovery)
        => StateProperty(cb).state = OPEN

C1_Witness ==
    /\ cb_obs.from_closed
    /\ cb_config.failure_threshold = 3
    /\ cb_obs.streak = 3
    /\ cb_obs.op = "record_failure"
    /\ cb.state = OPEN
    /\ BeforeRecovery

\* C2: a can_execute() call made while the breaker is OPEN and the recovery
\* timeout has not elapsed returns False and changes no field of the breaker.
C2_OpenRejects ==
    [][(cb.state = OPEN /\ BeforeRecovery /\ \E t \in Threads : CanExecute(t))
          => (cb_obs'.op = "can_execute" /\ cb_obs'.ret = "False" /\ cb' = cb)]_vars

C2_Witness ==
    /\ cb_obs.op = "can_execute"
    /\ cb_obs.ret = "False"
    /\ cb_obs.pre = OPEN
    /\ cb.state = OPEN
    /\ cb.half_open_calls > 0
    /\ BeforeRecovery

\* C3: the first state read of an OPEN breaker whose recovery timeout has
\* elapsed moves it to HALF_OPEN and zeroes half_open_calls and success_count;
\* a state read of a HALF_OPEN breaker returns HALF_OPEN and changes nothing;
\* only a state read takes the breaker from OPEN to HALF_OPEN.
C3_LazyHalfOpen ==
    /\ [][(cb.state = OPEN /\ AfterRecovery /\ StateReadStep)
            => (/\ cb'.state = HALF_OPEN
                /\ cb'.half_open_calls = 0
                /\ cb'.success_count = 0
                /\ cb_obs'.ret = HALF_OPEN)]_vars
    /\ [][(cb.state = HALF_OPEN /\ StateReadStep)
            => (cb_obs'.ret = HALF_OPEN /\ cb' = cb)]_vars
    /\ [][(cb.state = OPEN /\ cb'.state = HALF_OPEN) => StateReadStep]_vars

C3_Witness ==
    /\ cb_obs.op = "state"
    /\ cb_obs.ret = HALF_OPEN
    /\ cb_obs.pre = HALF_OPEN
    /\ cb.half_open_calls > 0
    /\ cb.success_count > 0
    /\ AfterRecovery

\* C4: in one half-open cycle can_execute() returns True at most
\* half_open_max_calls times, each time adding one to half_open_calls, and
\* returns False once the cap is reached; half_open_calls never exceeds the cap.
C4_HalfOpenCap ==
    /\ [](/\ cb.half_open_calls <= cb_config.half_open_max_calls
          /\ (cb.state = HALF_OPEN
                => cb_obs.admits <= cb_config.half_open_max_calls))
    /\ [][(\E t \in Threads : CanExecuteHalfOpen(t))
            => IF cb.half_open_calls < cb_config.half_open_max_calls
               THEN /\ cb_obs'.ret = "True"
                    /\ cb'.half_open_calls = cb.half_open_calls + 1
               ELSE /\ cb_obs'.ret = "False"
                    /\ cb' = cb]_vars

C4_Witness ==
    /\ cb.state = HALF_OPEN
    /\ cb_config.half_open_max_calls = 2
    /\ cb_obs.admits = 2
    /\ cb_obs.op = "can_execute"
    /\ cb_obs.ret = "False"

\* C5: a HALF_OPEN breaker becomes CLOSED, with failure_count 0, at the
\* record_success() that is the success_threshold-th of its half-open cycle and at
\* no earlier one; short of that it leaves HALF_OPEN only by a failure or a reset.
C5_SuccessesClose ==
    /\ [](cb.state = HALF_OPEN => cb_obs.successes < cb_config.success_threshold)
    /\ [][(cb.state = HALF_OPEN /\ \E t \in Threads : RecordSuccess(t))
            => \/ /\ cb_obs.successes + 1 = cb_config.success_threshold
                  /\ cb'.state = CLOSED
                  /\ cb'.failure_count = 0
               \/ /\ cb_obs.successes + 1 < cb_config.success_threshold
                  /\ cb'.state = HALF_OPEN]_vars
    /\ [][(cb.state = HALF_OPEN /\ cb'.state # HALF_OPEN)
            => \E t \in Threads : RecordSuccess(t) \/ RecordFailure(t) \/ Reset(t)]_vars

C5_Witness ==
    /\ cb_obs.op = "record_success"
    /\ cb_obs.pre = HALF_OPEN
    /\ cb.state = CLOSED
    /\ cb_config.success_threshold = 2
    /\ cb.success_count = 2
    /\ cb.failure_count = 0

\* C6: one record_failure() on a HALF_OPEN breaker moves it to OPEN and sets
\* last_failure_time to the current time, whatever success_count and
\* half_open_calls are.
C6_HalfOpenOneStrike ==
    [][(cb.state = HALF_OPEN /\ \E t \in Threads : RecordFailure(t))
          => (cb'.state = OPEN /\ cb'.last_failure_time = Some(now))]_vars

C6_Witness ==
    /\ cb_obs.op = "record_failure"
    /\ cb_obs.pre = HALF_OPEN
    /\ cb.state = OPEN
    /\ cb_config.success_threshold = 2
    /\ cb.success_count = 1
    /\ cb.half_open_calls > 0
    /\ cb.last_failure_time = Some(now)

\* C7: reset() from any state leaves the breaker CLOSED with failure_count,
\* success_count and half_open_calls 0 and last_failure_time None, and the
\* can_execute() that returns next returns True.
C7_ResetCloses ==
    /\ [][(\E t \in Threads : Reset(t))
            => (/\ cb'.state = CLOSED
                /\ cb'.failure_count = 0
                /\ cb'.success_count = 0
                /\ cb'.half_open_calls = 0
                /\ cb'.last_failure_time = None)]_vars
    /\ [][(cb_obs.op = "reset" /\ cb_obs'.op = "can_execute")
            => cb_obs'.ret = "True"]_vars

C7_Witness ==
    /\ cb_obs.op = "reset"
    /\ cb_obs.pre = HALF_OPEN
    /\ cb.state = CLOSED
    /\ AfterRecovery = FALSE
    /\ \E t \in Threads : cb_pc[t] = "half_open"

\* ---------------------------------------------------- RateLimiter contracts
\* The entries of a request log that lie in the window starting at window_start.
RequestsInWindow(q, window_start) ==
    Cardinality({i \in 1..Len(q) : q[i] >= window_start})

RECURSIVE TokensInWindow(_, _)
TokensInWindow(q, window_start) ==
    IF q = <<>> THEN 0
    ELSE (IF q[1][1] >= window_start THEN q[1][2] ELSE 0)
            + TokensInWindow(Tail(q), window_start)

\* Every entry of both logs was recorded more than one window before n.
AllOlder(r, n) ==
    /\ \A i \in 1..Len(r.request_timestamps) : n - r.request_timestamps[i] > Window
    /\ \A i \in 1..Len(r.token_usage) : n - r.token_usage[i][1] > Window

\* Every entry of both logs was recorded at least one window before n.
AllWindowOld(r, n) ==
    /\ \A i \in 1..Len(r.request_timestamps) : n - r.request_timestamps[i] >= Window
    /\ \A i \in 1..Len(r.token_usage) : n - r.token_usage[i][1] >= Window

Denies == ~rl_obs'.ok /\ rl_obs'.wait # None /\ rl_obs'.wait[1] >= MinWait
Allows == rl_obs'.ok /\ rl_obs'.wait = None

C9_TokenLimitDenies ==
    [][\A t \in Threads : CanProceedLocked(t) =>
          LET window_start == rl_pc[t].now - Window
          IN  (/\ RequestsInWindow(rl.request_timestamps, window_start)
                     < MaxRequestsOf(rl_config)
               /\ TokensInWindow(rl.token_usage, window_start)
                     + rl_pc[t].estimated_tokens > MaxTokensOf(rl_config))
                  => Denies]_vars

\* C10: both logs are in non-decreasing timestamp order in every state.
C10_LogsOrdered ==
    /\ \A i, j \in 1..Len(rl.request_timestamps) :
          i < j => rl.request_timestamps[i] <= rl.request_timestamps[j]
    /\ \A i, j \in 1..Len(rl.token_usage) :
          i < j => rl.token_usage[i][1] <= rl.token_usage[j][1]

\* --------------------------------------------------- RetryHandler contracts
\* C11: should_retry(attempt, error) is False for attempt >= max_retries
\* whatever the classifier says; for attempt < max_retries it is True exactly
\* when the classifier's verdict is retryable (False for non-retryable or none).
C11_ShouldRetry ==
    rh_obs.op = "should_retry" =>
        IF rh_obs.attempt >= rh_config.max_retries
        THEN rh_obs.retry = FALSE
        ELSE rh_obs.retry = (rh_obs.exception \in Retryable)

C11_Witness ==
    /\ rh_obs.op = "should_retry"
    /\ rh_config.max_retries = 2
    /\ rh_obs.attempt = 2
    /\ rh_obs.exception \in Retryable
    /\ rh_obs.retry = FALSE

\* C12: with jitter 0, calculate_delay(attempt) is
\* max(0.1, min(base_delay * exponential_base^attempt, max_delay)); it is not
\* below the delay of the attempt before (exponential_base >= 1), and for
\* max_delay >= 0.1 it is not above max_delay.
C12_DelayBackoff ==
    (rh_obs.op = "calculate_delay" /\ rh_config.jitter[1] = 0) =>
        LET c == rh_config
            a == rh_obs.attempt
            raw == c.base_delay * Pow(c.exponential_base, a)
        IN  /\ rh_obs.delay = (IF raw <= c.max_delay
                               THEN (IF raw >= MinDelay THEN raw ELSE MinDelay)
                               ELSE (IF c.max_delay >= MinDelay
                                     THEN c.max_delay ELSE MinDelay))
            /\ (a > 0 /\ c.exponential_base >= 1)
                  => \A d \in JitterDraws :
                        calculate_delay(c, a - 1, d) <= rh_obs.delay
            /\ c.max_delay >= MinDelay => rh_obs.delay <= c.max_delay

C12_Witness ==
    /\ rh_obs.op = "calculate_delay"
    /\ rh_config.jitter[1] = 0
    /\ rh_config.base_delay = 10
    /\ rh_config.exponential_base = 2
    /\ rh_config.max_delay = 50
    /\ rh_obs.attempt = 3
    /\ rh_obs.delay = 50


\* ------------------------------------------- ProductionMiddleware contracts
\* The caller's execute call has ended, by a return or an exception.
Done(t) == At(t, "idle") /\ mw_obs[t].outcome.kind \in {"return", "raise", "return_none"}

\* The counters as they were when the call started, with these raised by one.
StartMetricsPlus(t, fields) ==
    [f \in DOMAIN metrics |->
        IF f \in fields THEN mw_obs[t].start.metrics[f] + 1 ELSE mw_obs[t].start.metrics[f]]

\* C13: with enabled = false, execute calls the operation exactly once and
\* returns its result or lets its error through unchanged, whatever the breaker
\* state and the limiter window; no counter, breaker field or limiter log changes.
C13_DisabledPassThrough ==
    \A t \in Caller :
        LET o == mw_obs[t]
        IN  (~o.enabled /\ o.invocations > 0) =>
                /\ o.invocations = 1
                /\ metrics = o.start.metrics
                /\ cb = o.start.cb
                /\ rl = o.start.rl
                /\ Done(t) =>
                    \/ /\ o.op_returned # None
                       /\ o.op_raised = <<>>
                       /\ o.outcome = Returned(o.op_returned[1])
                    \/ /\ o.op_returned = None
                       /\ Len(o.op_raised) = 1
                       /\ o.outcome = Raised(o.op_raised[1], None)

C13_Witness ==
    \E t \in Caller :
        /\ Done(t)
        /\ ~mw_obs[t].enabled
        /\ mw_obs[t].start.cb.state = OPEN
        /\ mw_obs[t].start.rl.request_timestamps # <<>>
        /\ mw_obs[t].outcome.kind = "return"

\* C14: enabled, when can_execute() is false execute raises CircuitOpenError
\* without calling the operation; total_requests and circuit_breaker_rejections
\* are each one higher, the other counters, the breaker's failure_count and the
\* limiter's logs are as before, and the limiter is not consulted.
C14_CircuitRejection ==
    \A t \in Caller :
        LET o == mw_obs[t]
        IN  /\ (o.outcome.exc = "CircuitOpenError") => (o.admitted = Some(FALSE))
            /\ (Done(t) /\ o.enabled /\ o.admitted = Some(FALSE)) =>
                /\ o.outcome = Raised("CircuitOpenError", None)
                /\ o.invocations = 0
                /\ metrics = StartMetricsPlus(t, {"total_requests", "circuit_breaker_rejections"})
                /\ cb.failure_count = o.start.cb.failure_count
                /\ rl = o.start.rl
                /\ o.proceed = None

C14_Witness ==
    \E t \in Caller :
        /\ Done(t)
        /\ mw_obs[t].admitted = Some(FALSE)
        /\ mw_obs[t].outcome.exc = "CircuitOpenError"
        /\ mw_obs[t].start.rl.request_timestamps # <<>>

\* C15: enabled and admitted by the breaker, when can_proceed denies execute
\* raises RateLimitExceededError with the wait time can_proceed returned, the
\* operation is not called and the retry loop is not entered; total_requests and
\* rate_limit_rejections are each one higher, and neither record_success nor
\* record_failure reaches the breaker.
C15_RateLimitRejection ==
    \A t \in Caller :
        LET o == mw_obs[t]
        IN  /\ (o.outcome.exc = "RateLimitExceededError") =>
                (o.proceed # None /\ ~o.proceed[1].ok)
            /\ (Done(t) /\ o.enabled /\ o.admitted = Some(TRUE)
                  /\ o.proceed # None /\ ~o.proceed[1].ok) =>
                /\ o.proceed[1].wait # None
                /\ o.outcome = Raised("RateLimitExceededError", o.proceed[1].wait)
                /\ o.invocations = 0
                /\ o.sleeps = <<>>
                /\ metrics = StartMetricsPlus(t, {"total_requests", "rate_limit_rejections"})
                /\ o.cb_successes = 0
                /\ o.cb_failures = 0

C15_Witness ==
    \E t \in Caller :
        /\ Done(t)
        /\ mw_obs[t].outcome.exc = "RateLimitExceededError"
        /\ mw_obs[t].outcome.wait # None

\* C16: an admitted, enabled execute whose operation raises a non-retryable or
\* unclassified error on attempt 0 calls the operation exactly once, does not
\* sleep, raises that same error, counts one failed request and no retry, and
\* raises the breaker's failure_count by one.
C16_TerminalFailure ==
    \A t \in Caller :
        LET o == mw_obs[t]
        IN  (Done(t) /\ o.enabled /\ o.op_raised # <<>> /\ o.op_raised[1] \notin Retryable) =>
                /\ o.invocations = 1
                /\ o.sleeps = <<>>
                /\ o.outcome = Raised(o.op_raised[1], None)
                /\ metrics.failed_requests = o.start.metrics.failed_requests + 1
                /\ metrics.retried_requests = o.start.metrics.retried_requests
                /\ cb.failure_count = o.start.cb.failure_count + 1

C16_Witness ==
    \E t \in Caller :
        /\ Done(t)
        /\ mw_obs[t].enabled
        /\ mw_obs[t].op_raised = <<"unclassified">>
        /\ rh_config.max_retries = 2
        /\ metrics.failed_requests = 1

\* C17: when the operation fails k times with retryable errors (k at most
\* max_retries) and then returns, execute returns that result; retried_requests
\* is k higher, successful_requests one higher and failed_requests as before; the
\* sleep after attempt i is calculate_delay(i); the breaker gets one
\* record_success and no record_failure, so a breaker that was CLOSED stays CLOSED.
C17_RetryThenSuccess ==
    \A t \in Caller :
        LET o == mw_obs[t]
            k == Len(o.op_raised)
        IN  (Done(t) /\ o.enabled /\ o.op_returned # None) =>
                /\ k <= rh_config.max_retries
                /\ \A i \in 1..k : o.op_raised[i] \in Retryable
                /\ o.outcome = Returned(o.op_returned[1])
                /\ metrics.retried_requests = o.start.metrics.retried_requests + k
                /\ metrics.successful_requests = o.start.metrics.successful_requests + 1
                /\ metrics.failed_requests = o.start.metrics.failed_requests
                /\ Len(o.sleeps) = k
                /\ \A i \in 1..k :
                      \E d \in JitterDraws : o.sleeps[i] = calculate_delay(rh_config, i - 1, d)
                /\ o.cb_successes = 1
                /\ o.cb_failures = 0
                /\ (o.start.cb.state = CLOSED) => (cb.state = CLOSED)

C17_Witness ==
    \E t \in Caller :
        /\ Done(t)
        /\ mw_obs[t].enabled
        /\ mw_obs[t].op_returned # None
        /\ Len(mw_obs[t].op_raised) = 2
        /\ mw_obs[t].sleeps = <<10, 20>>
        /\ mw_obs[t].start.cb.state = CLOSED

\* C18: when the operation fails with a retryable error on every attempt, it is
\* called exactly max_retries + 1 times, retried_requests is max_retries higher,
\* failed_requests one higher, the breaker gets exactly one record_failure, and
\* the error raised is that of the last attempt, unwrapped.
C18_RetriesExhausted ==
    \A t \in Caller :
        LET o == mw_obs[t]
        IN  (Done(t) /\ o.enabled /\ o.op_raised # <<>> /\ o.op_returned = None
               /\ \A i \in 1..Len(o.op_raised) : o.op_raised[i] \in Retryable) =>
                /\ o.invocations = rh_config.max_retries + 1
                /\ Len(o.op_raised) = o.invocations
                /\ metrics.retried_requests =
                       o.start.metrics.retried_requests + rh_config.max_retries
                /\ metrics.failed_requests = o.start.metrics.failed_requests + 1
                /\ o.cb_failures = 1
                /\ o.cb_successes = 0
                /\ o.outcome = Raised(o.op_raised[Len(o.op_raised)], None)

C18_Witness ==
    \E t \in Caller :
        /\ Done(t)
        /\ mw_obs[t].op_raised = <<"retryable_1", "retryable_1", "retryable_2">>
        /\ mw_obs[t].outcome.exc = "retryable_2"
        /\ mw_obs[t].cb_failures = 1


\* ------------------------------------------------ default instance contracts
\* C19: every get_middleware() call, concurrent first calls included, returns
\* the same instance until configure_middleware() replaces it, and between two
\* configure_middleware() calls get_middleware() constructs at most one instance.
C19_SingleDefaultInstance ==
    /\ Cardinality(g_obs.returned_since) <= 1
    /\ g_obs.constructed_by_get <= 1
    /\ \A id \in g_obs.returned_since : _middleware = Some(id)

C19_Witness ==
    /\ g_obs.contended
    /\ g_obs.constructed_by_get = 1
    /\ \A t \in Threads : GAt(t, "idle") /\ g_pc[t].ref = Some(1)
    /\ Len(instances) = 1

\* configure_middleware's assignment: the instance is one that did not exist,
\* it is a fresh ProductionMiddleware carrying the given config, and the
\* instances that existed are as they were.
C20_ConfigureStep ==
    \A t \in Threads :
        ConfigureMiddlewareConstruct(t) =>
            /\ _middleware' # None
            /\ _middleware'[1] \notin DOMAIN instances
            /\ instances'[_middleware'[1]] = ProductionMiddleware__init__(g_pc[t].config)
            /\ \A i \in DOMAIN instances : instances'[i] = instances[i]

\* reset_middleware's two statements: the global and the set of instances are
\* as they were, the default instance keeps its config, its breaker is reset by
\* the first and its metrics are fresh after the second.
C20_ResetStep ==
    \A t \in Threads :
        /\ (ResetMiddlewareBreaker(t) \/ ResetMiddlewareMetrics(t)) =>
              /\ _middleware' = _middleware
              /\ DOMAIN instances' = DOMAIN instances
              /\ \A i \in DOMAIN instances :
                    /\ instances'[i].config = instances[i].config
                    /\ (_middleware # Some(i)) => (instances'[i] = instances[i])
        /\ (ResetMiddlewareBreaker(t) /\ _middleware # None) =>
              instances'[_middleware[1]].circuit_breaker = CircuitBreaker__init__
        /\ ResetMiddlewareMetrics(t) =>
              instances'[_middleware[1]].metrics = MiddlewareMetrics__init__

\* C20: configure_middleware(config) replaces the default instance with a newly
\* constructed one carrying config, so a get_middleware() after it returns an
\* instance that no get_middleware() before it returned; reset_middleware()
\* resets the existing default instance in place and neither creates nor
\* replaces an instance.
C20_ReplaceAndResetInPlace ==
    /\ [](g_obs.returned_since \cap g_obs.returned_before = {})
    /\ [][C20_ConfigureStep /\ C20_ResetStep]_vars

C20_Witness ==
    /\ g_obs.returned_before # {}
    /\ g_obs.returned_since # {}
    /\ g_obs.reset_dirty
    /\ \A t \in Threads : GAt(t, "idle")
    /\ _middleware # None
    /\ instances[_middleware[1]] = ProductionMiddleware__init__([enabled |-> FALSE])


\* ---------------------------------------------------- ProductionMiddleware.reset
\* The caller's reset() has returned and nothing but the clock has moved since.
ResetDone(t) == At(t, "idle") /\ mw_obs[t].outcome.kind = "reset"

\* C21: ProductionMiddleware.reset() leaves the breaker CLOSED with zeroed
\* counters and the metrics at zero with no latency sample, and leaves both
\* limiter logs as they were: the limiter answers can_proceed exactly as it would
\* have without the reset, so a request it denied before is still denied.
C21_ResetKeepsLimiter ==
    \A t \in Caller :
        ResetDone(t) =>
            /\ cb = CircuitBreaker__init__
            /\ metrics = MiddlewareMetrics__init__
            /\ rl = mw_obs[t].start.rl
            /\ \A e \in EstimatedTokensArgs :
                  CanProceedLockRegion(rl, rl_config, now, e).ok
                      = CanProceedLockRegion(mw_obs[t].start.rl, rl_config, now, e).ok

C21_Witness ==
    \E t \in Caller :
        /\ ResetDone(t)
        /\ mw_obs[t].start.cb.state = HALF_OPEN
        /\ mw_obs[t].start.cb.half_open_calls > 0
        /\ mw_obs[t].start.metrics.rate_limit_rejections = 1
        /\ ~CanProceedLockRegion(rl, rl_config, now, 0).ok


\* ------------------------------------------- CircuitBreaker under concurrency
\* C22: under any interleaving of can_execute(), state reads, record_success(),
\* record_failure() and reset() calls, can_execute() never returns True, and
\* never increments half_open_calls, at a moment when a state read gives OPEN.
C22_CanExecuteAtomic ==
    [][\A t \in Threads :
          (/\ CanExecute(t) \/ CanExecuteHalfOpen(t)
           /\ StateProperty(cb).state = OPEN)
              => /\ cb'.half_open_calls = cb.half_open_calls
                 /\ ~(cb_obs'.op = "can_execute" /\ cb_obs'.ret = "True")]_vars


\* ------------------------------------------------------ execute and its locks
\* The labels of the admission part of execute: the request count, the breaker
\* check and the limiter check, with their counter updates.
AdmissionLabels ==
    {"idle", "can_execute", "can_execute_half_open", "circuit_rejected",
     "circuit_open_error", "can_proceed", "can_proceed_locked", "rate_limited"}

\* The next admission step of a thread, whatever number of calls were made.
AdmissionStep(u) == LocksFree(u) /\ (Execute(u, 0) \/ EnabledStep(u))

Admitted(t) ==
    /\ mw_obs[t].enabled
    /\ mw_obs[t].admitted = Some(TRUE)
    /\ mw_obs[t].proceed # None
    /\ mw_obs[t].proceed[1].ok

\* C24: an admitted execute delivers exactly one outcome to the breaker before
\* it ends: one record_success and no record_failure if it returns a result, one
\* record_failure and no record_success if it raises; attempts that are retried
\* deliver nothing.
C24_OneOutcomeToBreaker ==
    \A t \in Caller :
        LET o == mw_obs[t]
        IN  Admitted(t) =>
                /\ o.cb_successes + o.cb_failures <= 1
                /\ mw_pc[t].at \in {"loop", "func", "count_retry", "sleep"} =>
                      (o.cb_successes = 0 /\ o.cb_failures = 0)
                /\ Done(t) => o.cb_successes + o.cb_failures = 1
                /\ (Done(t) /\ o.outcome.kind = "return") =>
                      (o.cb_successes = 1 /\ o.cb_failures = 0)
                /\ (Done(t) /\ o.outcome.kind = "raise") =>
                      (o.cb_successes = 0 /\ o.cb_failures = 1)

C24_Witness ==
    \E t \in Caller :
        /\ Admitted(t)
        /\ Done(t)
        /\ mw_obs[t].outcome.kind = "raise"
        /\ Len(mw_obs[t].sleeps) = 2
        /\ mw_obs[t].cb_failures = 1
        /\ cb.state = OPEN


\* Every execute call made so far on the fresh middleware ended in a terminal
\* failure, there were failure_threshold of them, and the call in progress is
\* the next one.
AfterThresholdFailures(t) ==
    /\ mw_obs[t].start.metrics.total_requests = cb_config.failure_threshold
    /\ mw_obs[t].start.metrics.failed_requests = cb_config.failure_threshold
    /\ mw_obs[t].calls = cb_config.failure_threshold + 1

\* C25: on a fresh enabled middleware, after failure_threshold consecutive
\* execute calls that each ended in a terminal failure, the next execute, if it
\* reaches the breaker before recovery_timeout has elapsed, is rejected: it
\* raises CircuitOpenError and never invokes the operation.
C25_ThresholdFailuresOpen ==
    /\ [][\A t \in Caller :
            (/\ MWCanExecute(t)
             /\ AfterThresholdFailures(t)
             /\ now - cb.last_failure_time[1] < cb_config.recovery_timeout)
            => (mw_pc'[t].at = "circuit_rejected" /\ mw_obs'[t].admitted = Some(FALSE))]_vars
    /\ [](\A t \in Caller :
            (AfterThresholdFailures(t) /\ mw_obs[t].admitted = Some(FALSE)) =>
                /\ mw_obs[t].invocations = 0
                /\ mw_pc[t].at \in {"circuit_rejected", "circuit_open_error", "idle"}
                /\ Done(t) => mw_obs[t].outcome = Raised("CircuitOpenError", None))

C25_Witness ==
    \E t \in Caller :
        /\ AfterThresholdFailures(t)
        /\ cb_config.failure_threshold = 2
        /\ Done(t)
        /\ mw_obs[t].outcome.kind = "raise"
        /\ mw_obs[t].outcome.exc = "CircuitOpenError"
        /\ now - cb.last_failure_time[1] < cb_config.recovery_timeout


\* ------------------------------------------------ breaker fields, continued
\* C26: while CLOSED, record_success sets failure_count to
\* max(0, failure_count - 1) and changes no other field, the state included;
\* failure_count is never negative.
C26_SuccessDecaysWhileClosed ==
    /\ [](cb.failure_count >= 0)
    /\ [][\A t \in Threads :
            (RecordSuccess(t) /\ cb.state = CLOSED) =>
                cb' = [cb EXCEPT !.failure_count =
                                   IF cb.failure_count >= 1 THEN cb.failure_count - 1 ELSE 0]]_vars

C26_Witness ==
    /\ cb_obs.op = "record_success"
    /\ cb_obs.pre = CLOSED
    /\ cb.state = CLOSED
    /\ cb.failure_count = 1
    /\ cb.last_failure_time # None


\* C27: last_failure_time of an OPEN breaker is the time it entered OPEN: a
\* record_failure that arrives while the breaker is OPEN (its recovery timeout
\* not yet elapsed) leaves the state OPEN and leaves last_failure_time, and so
\* the time at which a state read moves the breaker to HALF_OPEN, where it was.
C27_FailureWhileOpenKeepsTime ==
    [][\A t \in Threads :
          (RecordFailure(t) /\ cb.state = OPEN /\ ~RecoveryDue(cb)) =>
              /\ cb'.state = OPEN
              /\ cb'.last_failure_time = cb.last_failure_time]_vars


\* ------------------------------------------------ limiter logs, continued
\* C28: right after a can_proceed() returns, whatever the interleaving of
\* concurrent record_request() and can_proceed() calls, neither log holds an
\* entry older than that call's window_start = now - 60 s.
C28_PrunedAfterCanProceed ==
    [][\A t \in Threads : CanProceedLocked(t) =>
          LET window_start == rl_pc[t].now - Window
          IN  /\ \A i \in 1..Len(rl'.request_timestamps) :
                    rl'.request_timestamps[i] >= window_start
              /\ \A i \in 1..Len(rl'.token_usage) :
                    rl'.token_usage[i][1] >= window_start]_vars


\* ------------------------------------------------ execute and the limiter
\* The values the clock can have been read at.
ClockReadings == {Step * k : k \in 1..(MaxTicks + 1)}

\* The limiter logs as the call's can_proceed left them, for its reading n.
PrunedAt(t, n) == CanProceedLockRegion(mw_obs[t].start.rl, rl_config, n, 0).rl

\* C29: an enabled execute that returns a result has called record_request
\* exactly once, with the token count extracted from the result: one timestamp
\* is appended to the request log, a (timestamp, tokens) entry to the token log
\* only if the count is positive, and total_tokens_received grows by the count.
\* An execute that ends in an error has appended nothing to either log.
C29_RecordRequestOnSuccessOnly ==
    \A t \in Caller :
        LET o == mw_obs[t]
        IN  (Done(t) /\ o.enabled) =>
                /\ o.outcome.kind = "return" =>
                      LET k == IF o.outcome.result[1].usage # None
                               THEN o.outcome.result[1].usage[1] ELSE 0
                      IN  /\ o.rl_records = 1
                          /\ \E n, m \in ClockReadings :
                                /\ n <= m
                                /\ m <= now
                                /\ rl.request_timestamps =
                                      Append(PrunedAt(t, n).request_timestamps, m)
                                /\ rl.token_usage =
                                      IF k > 0
                                      THEN Append(PrunedAt(t, n).token_usage, <<m, k>>)
                                      ELSE PrunedAt(t, n).token_usage
                          /\ metrics.total_tokens_received =
                                o.start.metrics.total_tokens_received + k
                /\ o.outcome.kind \in {"raise", "return_none"} =>
                      /\ o.rl_records = 0
                      /\ metrics.total_tokens_received = o.start.metrics.total_tokens_received
                      /\ IF o.proceed = None
                         THEN rl = o.start.rl
                         ELSE \E n \in ClockReadings : n <= now /\ rl = PrunedAt(t, n)

C29_Witness ==
    \E t \in Caller :
        /\ Done(t)
        /\ mw_obs[t].enabled
        /\ mw_obs[t].outcome.kind = "return"
        /\ mw_obs[t].outcome.result[1].usage = None
        /\ Len(mw_obs[t].sleeps) = 1
        /\ mw_obs[t].start.rl.token_usage # <<>>
        /\ Len(rl.request_timestamps) = 2
        /\ rl.token_usage = mw_obs[t].start.rl.token_usage


\* ------------------------------------------------ execute: the retry loop
\* C30: with max_retries >= 0, whatever the operation does at each invocation,
\* an admitted execute invokes the operation at least once and at most
\* max_retries + 1 times and then ends, returning the operation's result or
\* raising the error of its last invocation; it never returns without a result.
C30_AdmittedCallEnds ==
    /\ [](\A t \in Caller :
            LET o == mw_obs[t]
            IN  (Admitted(t) /\ rh_config.max_retries >= 0) =>
                    /\ o.invocations <= rh_config.max_retries + 1
                    /\ Done(t) =>
                          /\ o.invocations >= 1
                          /\ o.outcome.kind \in {"return", "raise"}
                          /\ o.outcome.kind = "return" =>
                                /\ o.op_returned # None
                                /\ o.outcome = Returned(o.op_returned[1])
                                /\ o.invocations = Len(o.op_raised) + 1
                          /\ o.outcome.kind = "raise" =>
                                /\ o.op_returned = None
                                /\ o.invocations = Len(o.op_raised)
                                /\ o.outcome = Raised(o.op_raised[Len(o.op_raised)], None))
    /\ \A t \in Caller : (Admitted(t) /\ rh_config.max_retries >= 0) ~> Done(t)

C30_Witness ==
    \E t \in Caller :
        /\ Admitted(t)
        /\ Done(t)
        /\ rh_config.max_retries = 2
        /\ mw_obs[t].invocations = 3
        /\ mw_obs[t].outcome.kind = "raise"
        /\ mw_obs[t].outcome.exc = "retryable_1"


\* ------------------------------------------------ execute: backoff time
\* C31: the time one execute call spends in backoff sleeps is at most
\* max_retries * max_delay in total, whatever the jitter fraction in [0, 1)
\* and whatever the jitter draws.
C31_BackoffTotalBounded ==
    \A t \in Caller :
        SumSeq(mw_obs[t].sleeps) <= rh_config.max_retries * rh_config.max_delay


\* ------------------------------------------------ MiddlewareMetrics
\* C32: the latency FIFO never holds more than 100 samples; record_latency on
\* a full FIFO evicts the oldest sample and appends the new one; after every
\* record_latency, average_latency_ms is the mean of the samples in the FIFO.
C32_LatencyFifo ==
    /\ [](Len(metrics.latencies) <= LatencyCapacity)
    /\ [][\A latency \in LatencySamples : RecordLatency(latency) =>
            /\ metrics'.latencies =
                  IF Len(metrics.latencies) = LatencyCapacity
                  THEN Append(Tail(metrics.latencies), latency)
                  ELSE Append(metrics.latencies, latency)
            /\ metrics'.average_latency_ms[2] > 0
            /\ metrics'.average_latency_ms[1] * Len(metrics'.latencies) =
                  SumSeq(metrics'.latencies) * metrics'.average_latency_ms[2]]_vars

C32_Witness ==
    /\ Len(metrics.latencies) = LatencyCapacity
    /\ metrics.latencies[LatencyCapacity] = 25
    /\ metrics.latencies[LatencyCapacity - 1] = 10
    /\ metrics.latencies[1] = 1
    /\ metrics.average_latency_ms = <<SumSeq(metrics.latencies), LatencyCapacity>>
    /\ metrics.average_latency_ms[1] = 84


\* ------------------------------------------------ the counters of execute
Outcomes(m) ==
    m.successful_requests + m.failed_requests
        + m.circuit_breaker_rejections + m.rate_limit_rejections

NoCallInFlight == \A t \in Threads : At(t, "idle")

\* C33: whenever no execute call is in flight, and reset() has not been
\* called, total_requests = successful_requests + failed_requests
\* + circuit_breaker_rejections + rate_limit_rejections, for every interleaving
\* of enabled execute calls with max_retries >= 0.
C33_TotalsAddUp ==
    (NoCallInFlight /\ mw_config.enabled /\ rh_config.max_retries >= 0) =>
        metrics.total_requests = Outcomes(metrics)

C33_Witness ==
    /\ NoCallInFlight
    /\ mw_obs["t1"].calls = 1
    /\ mw_obs["t2"].calls = 1
    /\ mw_obs["t1"].sleeps # <<>>
    /\ mw_obs["t2"].sleeps # <<>>
    /\ metrics.total_requests = 2
    /\ metrics.successful_requests = 1
    /\ metrics.failed_requests = 1


\* C34: in every reachable state, also when reset() runs while execute calls
\* are in flight on other threads, successful_requests + failed_requests
\* + circuit_breaker_rejections + rate_limit_rejections <= total_requests, so
\* that the reported success_rate is never above 1.
C34_OutcomesWithinTotal == Outcomes(metrics) <= metrics.total_requests


\* ------------------------------------------------ leaving HALF_OPEN
\* The breaker is HALF_OPEN, its trial slots are used up, and no admitted call
\* is left that could still report an outcome.
NoTrialInFlight ==
    \A t \in Threads :
        mw_pc[t].at \in {"idle", "can_execute", "can_execute_half_open",
                         "circuit_rejected", "circuit_open_error"}

HalfOpenExhausted ==
    /\ cb.state = HALF_OPEN
    /\ ~HalfOpenSlotFree(cb)
    /\ NoTrialInFlight

\* Once the trial slots are used up with no trial in flight, every further
\* step of execute leaves the breaker as it is.
HalfOpenExhaustedStays == [][HalfOpenExhausted => (HalfOpenExhausted' /\ cb' = cb)]_vars

C36_RequestLogWithinLimit ==
    RequestsInWindow(rl.request_timestamps, now - Window) <= MaxRequestsOf(rl_config)


\* ------------------------------------------------ the locks: no deadlock
HoldsLocks(t) == {l \in AllLocks : lock_holder[l] = Some(t)}

WantsLock(t) ==
    IF lk_pc[t] # <<>> /\ lk_pc[t][1][1] = "acquire" THEN {lk_pc[t][1][2]} ELSE {}

Blocked(t) == \E l \in WantsLock(t) : lock_holder[l] # None

\* The chain of threads waiting for each other that starts at t ends, within n
\* links, at a thread that is not waiting.
RECURSIVE WaitEnds(_, _)
WaitEnds(t, n) ==
    IF ~Blocked(t) THEN TRUE
    ELSE IF n = 0 THEN FALSE
    ELSE \A l \in WantsLock(t) : WaitEnds(lock_holder[l][1], n - 1)

\* The one nesting of with blocks there is: reset_middleware calls reset().
NestingOrder == {<<"_middleware_lock", "circuit_breaker._lock">>}

BreakerInvariants ==
    /\ cb.state = CLOSED => cb.failure_count < cb_config.failure_threshold
    /\ 0 <= cb.half_open_calls
    /\ cb.half_open_calls <= cb_config.half_open_max_calls
    /\ cb.success_count >= 0
    /\ cb.state \in {OPEN, HALF_OPEN} => cb.last_failure_time # None

\* C38 as stated: in every reachable breaker state with failure_threshold >= 1,
\* a CLOSED breaker has fewer failures counted than the threshold,
\* half_open_calls lies between 0 and half_open_max_calls, success_count is not
\* negative, and an OPEN or HALF_OPEN breaker has last_failure_time set.
C38_BreakerInvariants == cb_config.failure_threshold >= 1 => BreakerInvariants

\* C38, amended: the same in every reachable breaker state with
\* failure_threshold >= 1 and half_open_max_calls >= 0.
C38_BreakerInvariantsWithCap ==
    (cb_config.failure_threshold >= 1 /\ cb_config.half_open_max_calls >= 0)
        => BreakerInvariants

\* Every trial call of a re-opened and recovered breaker is issued, and one of
\* them has succeeded.
C38_Witness ==
    /\ cb.state = HALF_OPEN
    /\ cb_config.half_open_max_calls = 2
    /\ cb.half_open_calls = cb_config.half_open_max_calls
    /\ cb.success_count = 1
    /\ cb.failure_count >= cb_config.failure_threshold
    /\ cb.last_failure_time # None

====
